---- MODULE Spec2Model ----
(***************************************************************************)
(* Dependency resolution and fan-out propagation of schema objects         *)
(* (citus: commands/dependency.c, catalog/distobjectaddress.c,             *)
(* commands/type.c).                                                       *)
(*                                                                         *)
(* Seven specifications share the state:                                     *)
(*   SpecResolve  GetDependenciesForObject applied to a target over every  *)
(*                bounded pg_depend / pg_dist_object content;              *)
(*   SpecKinds    the same call on stores that reference objects of every  *)
(*                kind, a base type and a function included;               *)
(*   Spec         EnsureDependenciesExistsOnAllNodes called repeatedly on  *)
(*                a coordinator with a fleet of worker nodes;              *)
(*   SpecShared   that coordinator with direct calls of the pg_dist_object *)
(*                interface, a concurrent propagation and errors of the    *)
(*                rendering.                                               *)
(*   SpecTypeDDL  a planner of type.c called with a CREATE TYPE, ALTER     *)
(*                TYPE, ALTER TYPE ... VALUE or DROP TYPE statement;       *)
(*   SpecFunctions the renderers of type.c and the address mappings of     *)
(*                distobjectaddress.c applied to the local catalog;        *)
(*   SpecWorker   worker_create_if_not_exists called on a worker with the  *)
(*                create statements of types.                              *)
(***************************************************************************)
EXTENDS Integers, Sequences, FiniteSets, TLC

(***************************************************************************)
(* Bounds of the model.                                                    *)
(***************************************************************************)
\* largest number of pg_depend rows in a store of SpecResolve
MaxEdges == 3
\* nesting of GetDependenciesForObject at which the backend's stack is taken
\* to be exhausted; larger than the number of objects, so that only a walk
\* that revisits an object reaches it
MaxDepth == 6
\* number of worker nodes known to the node directory
NumNodes == 2

(***************************************************************************)
(* The local catalog of the coordinator: object addresses, their names and *)
(* type sub-kinds.  classId is the catalog the object lives in.            *)
(***************************************************************************)
NamespaceRelationId == "pg_namespace"
TypeRelationId == "pg_type"
ExtensionRelationId == "pg_extension"
ProcedureRelationId == "pg_proc"

TYPTYPE_ENUM == "e"
TYPTYPE_COMPOSITE == "c"
TYPTYPE_BASE == "b"

DEPENDENCY_NORMAL == "n"
DEPENDENCY_AUTO == "a"
DEPENDENCY_EXTENSION == "e"

\* ObjectAddressSet(addr, classId, objectId): objectSubId is 0
ObjectAddressSet(classId, objectId) ==
    [classId |-> classId, objectId |-> objectId, objectSubId |-> 0]

nsApp == ObjectAddressSet(NamespaceRelationId, 11)
enumStatus == ObjectAddressSet(TypeRelationId, 12)
compOrder == ObjectAddressSet(TypeRelationId, 13)
baseInet == ObjectAddressSet(TypeRelationId, 14)
extCitus == ObjectAddressSet(ExtensionRelationId, 15)
funcSum == ObjectAddressSet(ProcedureRelationId, 16)
\* the array type of app.status, the built-in type int4 of pg_catalog, and
\* a namespace whose name needs quotes
arrayStatus == ObjectAddressSet(TypeRelationId, 17)
nsSales == ObjectAddressSet(NamespaceRelationId, 18)
nsCatalog == ObjectAddressSet(NamespaceRelationId, 19)
typeInt4 == ObjectAddressSet(TypeRelationId, 23)

\* the objects that can be a target or a dependency
Objects == {nsApp, enumStatus, compOrder, baseInet}
\* the objects of a kind for which a create command exists
Distributable == {nsApp, enumStatus, compOrder}

\* getObjectIdentity: the qualified name of an object
getObjectIdentity(address) ==
    CASE address = nsApp -> "app"
      [] address = enumStatus -> "app.status"
      [] address = compOrder -> "app.order"
      [] address = baseInet -> "app.inet"
      [] address = funcSum -> "app.sum(integer)"
      [] address = arrayStatus -> "app.status[]"
      [] address = nsSales -> "\"Sales\""
      [] address = nsCatalog -> "pg_catalog"
      [] address = typeInt4 -> "integer"
      [] OTHER -> "citus"

\* getObjectClass
getObjectClass(address) ==
    CASE address.classId = NamespaceRelationId -> "OCLASS_SCHEMA"
      [] address.classId = TypeRelationId -> "OCLASS_TYPE"
      [] address.classId = ProcedureRelationId -> "OCLASS_PROC"
      [] OTHER -> "OCLASS_EXTENSION"

\* get_typtype of a pg_type oid
get_typtype(objectId) ==
    CASE objectId = enumStatus.objectId -> TYPTYPE_ENUM
      [] objectId = compOrder.objectId -> TYPTYPE_COMPOSITE
      [] OTHER -> TYPTYPE_BASE

(***************************************************************************)
(* pg_depend rows (depender, referenced object, deptype).                  *)
(***************************************************************************)
DependRow(dependent, referenced, deptype) ==
    [classid |-> dependent.classId, objid |-> dependent.objectId,
     refclassid |-> referenced.classId, refobjid |-> referenced.objectId,
     deptype |-> deptype]

\* the rows a store is drawn from: normal edges between two different
\* objects, automatic edges between two different distributable objects,
\* membership in the extension
CandidateRows ==
    {DependRow(p[1], p[2], DEPENDENCY_NORMAL) :
        p \in {q \in Objects \X Objects : q[1] # q[2]}}
    \cup {DependRow(p[1], p[2], DEPENDENCY_AUTO) :
            p \in {q \in Distributable \X Distributable : q[1] # q[2]}}
    \cup {DependRow(d, extCitus, DEPENDENCY_EXTENSION) : d \in Objects}

RECURSIVE RowSets(_)
RowSets(k) ==
    IF k = 0 THEN {{}}
    ELSE LET smaller == RowSets(k - 1)
         IN  smaller \cup {s \cup {r} : s \in smaller, r \in CandidateRows}

VARIABLES
    pgDepend,       \* pg_depend: set of rows
    pgDistObject,   \* pg_dist_object: set of [classid, identifier, copy] tuples
    scanBackward,   \* order in which an index scan returns a depender's rows
    pc,             \* position of the backend
    target,         \* argument of the running call
    dependencies,   \* the list built by GetDependenciesForObject
    walkDepth,      \* deepest nesting of GetDependenciesForObject in the walk
    walkEntered,    \* objects a nested GetDependenciesForObject was called for
    schemaCommand,  \* whether CreateSchemaDDLCommand yields a command
    workerNodes,    \* the active primary nodes of the node directory
    depIdx,         \* position of dependencyCell in dependencies
    connections,    \* the list of connections (by node), NIL until opened
    connIdx,        \* position of connectionCell in connections
    openConnections,\* nodes with a connection that is open
    activeAtOpen,   \* the active nodes when the call opened its connections
    sent,           \* command lists handed to a connection by the call
    txnDistObject,  \* pg_dist_object when the call's transaction began
    prevTarget,     \* target of the last completed call, fleet unchanged
    prevSent,       \* number of command lists that call sent
    repeatCall,     \* the running call repeats the last completed one
    catalogCall,    \* the running call of the pg_dist_object interface
    failedTarget,   \* target of the last call when that call failed
    stmt,           \* the statement or argument a function of type.c or of
                    \* distobjectaddress.c is called with
    planPc,         \* the next step of the planner that handles stmt
    xact,           \* the coordinator's transaction: whether a parallel
                    \* query ran in it, its multi-shard modify mode
    result,         \* what that call has produced so far
    workerCommands, \* the commands that call has sent to the workers
    workerState     \* per node: whether it is reachable and which labels
                    \* its copy of the enum has

resolveVars == <<pgDepend, pgDistObject, scanBackward, pc, target,
                 dependencies, walkDepth, walkEntered>>

fleetVars == <<schemaCommand, workerNodes, depIdx, connections, connIdx,
               openConnections, activeAtOpen, sent, txnDistObject,
               prevTarget, prevSent, repeatCall, catalogCall, failedTarget>>

ddlVars == <<stmt, planPc, xact, result, workerCommands, workerState>>

vars == <<resolveVars, fleetVars, ddlVars>>

NoStmt == [kind |-> "none"]
NoResult == [kind |-> "none"]
NoXact == [parallelQueryExecuted |-> FALSE, multiShardModifyMode |-> "parallel"]

\* no function of type.c or of distobjectaddress.c is being called
DdlAtRest ==
    /\ stmt = NoStmt
    /\ planPc = 1
    /\ xact = NoXact
    /\ result = NoResult
    /\ workerCommands = <<>>
    /\ workerState = <<>>

NoTarget == ObjectAddressSet("none", 0)

(***************************************************************************)
(* pg_dist_object.                                                         *)
(***************************************************************************)
\* heap_form_tuple of the two columns; copy tells apart the tuples of the
\* heap that hold the same values
DistObjectRow(classId, identifier) ==
    [classid |-> classId, identifier |-> identifier, copy |-> 1]

\* the tuples of the heap that hold the pair
TuplesOf(classId, identifier, distObject) ==
    {tup \in distObject : /\ tup.classid = classId
                          /\ tup.identifier = identifier}

\* IsInPgDistObject: scan for classid = $1 AND identifier = $2
IsInPgDistObject(address, distObject) ==
    \E tup \in distObject :
        /\ tup.classid = address.classId
        /\ tup.identifier = getObjectIdentity(address)

\* makeDistObjectAddress
makeDistObjectAddress(classid, identifier) ==
    [classId |-> classid, identifier |-> identifier]

\* mutant: the scan has the key on identifier alone
isObjectDistributedByIdentifier(distAddress, distObject) ==
    \E tup \in distObject : tup.identifier = distAddress.identifier

\* isObjectDistributed: scan for classid = $1 AND identifier = $2
isObjectDistributed(distAddress, distObject) ==
    \E tup \in distObject :
        /\ tup.classid = distAddress.classId
        /\ tup.identifier = distAddress.identifier

\* mutant: pg_dist_object has no unique index
UniqueViolationNever(classId, identifier, distObject) == FALSE

\* the uniqueness constraint of pg_dist_object on (classid, identifier):
\* CatalogTupleInsert builds the index entry and raises an ERROR when a
\* tuple with the pair exists
UniqueViolation(classId, identifier, distObject) ==
    TuplesOf(classId, identifier, distObject) # {}

NoCatalogCall == [op |-> "none"]

(***************************************************************************)
(* The index scan of pg_depend on (classid, objid).                        *)
(***************************************************************************)
RowRank(row) ==
    3 * row.refobjid
    + (CASE row.deptype = DEPENDENCY_NORMAL -> 0
         [] row.deptype = DEPENDENCY_AUTO -> 1
         [] OTHER -> 2)

RECURSIVE OrderRows(_, _)
OrderRows(rows, backward) ==
    IF rows = {} THEN <<>>
    ELSE LET first == CHOOSE r \in rows : \A o \in rows :
                          IF backward THEN RowRank(o) <= RowRank(r)
                                      ELSE RowRank(r) <= RowRank(o)
         IN  <<first>> \o OrderRows(rows \ {first}, backward)

\* systable_beginscan(depRel, DependDependerIndexId, ...) with the two keys
DependScan(address, depend, backward) ==
    OrderRows({r \in depend : r.classid = address.classId
                              /\ r.objid = address.objectId}, backward)

\* IsObjectAddressOwnedByExtension
IsObjectAddressOwnedByExtension(address, depend) ==
    \E r \in depend :
        /\ r.classid = address.classId
        /\ r.objid = address.objectId
        /\ r.deptype = DEPENDENCY_EXTENSION

\* mutant: the list is never searched
IsObjectAddressInListNever(findAddress, addressList) == FALSE

\* mutant: the sub-object id is not compared
IsObjectAddressInListAnySubId(findAddress, addressList) ==
    \E i \in DOMAIN addressList :
        /\ findAddress.classId = addressList[i].classId
        /\ findAddress.objectId = addressList[i].objectId

\* IsObjectAddressInList
IsObjectAddressInList(findAddress, addressList) ==
    \E i \in DOMAIN addressList :
        /\ findAddress.classId = addressList[i].classId
        /\ findAddress.objectId = addressList[i].objectId
        /\ \/ findAddress.objectSubId = addressList[i].objectSubId
           \/ addressList[i].objectSubId = 0

\* mutant: pg_dist_object is not consulted
ShouldFollowDependencyIgnoringCatalog(toFollow, depend, distObject) ==
    IF IsObjectAddressOwnedByExtension(toFollow, depend) THEN FALSE
    ELSE CASE getObjectClass(toFollow) = "OCLASS_SCHEMA" -> TRUE
           [] getObjectClass(toFollow) = "OCLASS_TYPE" ->
                 get_typtype(toFollow.objectId) \in {TYPTYPE_ENUM, TYPTYPE_COMPOSITE}
           [] OTHER -> FALSE

\* mutant: ownership by an extension is not consulted
ShouldFollowDependencyIgnoringExtension(toFollow, depend, distObject) ==
    IF IsInPgDistObject(toFollow, distObject) THEN FALSE
    ELSE CASE getObjectClass(toFollow) = "OCLASS_SCHEMA" -> TRUE
           [] getObjectClass(toFollow) = "OCLASS_TYPE" ->
                 get_typtype(toFollow.objectId) \in {TYPTYPE_ENUM, TYPTYPE_COMPOSITE}
           [] OTHER -> FALSE

\* mutant: every type is followed, whatever its typtype
ShouldFollowDependencyAnyType(toFollow, depend, distObject) ==
    IF IsObjectAddressOwnedByExtension(toFollow, depend) THEN FALSE
    ELSE IF IsInPgDistObject(toFollow, distObject) THEN FALSE
    ELSE CASE getObjectClass(toFollow) = "OCLASS_SCHEMA" -> TRUE
           [] getObjectClass(toFollow) = "OCLASS_TYPE" -> TRUE
           [] OTHER -> FALSE

\* ShouldFollowDependency
ShouldFollowDependency(toFollow, depend, distObject) ==
    IF IsObjectAddressOwnedByExtension(toFollow, depend) THEN FALSE
    ELSE IF IsInPgDistObject(toFollow, distObject) THEN FALSE
    ELSE CASE getObjectClass(toFollow) = "OCLASS_SCHEMA" -> TRUE
           [] getObjectClass(toFollow) = "OCLASS_TYPE" ->
                 get_typtype(toFollow.objectId) \in {TYPTYPE_ENUM, TYPTYPE_COMPOSITE}
           [] OTHER -> FALSE

\* mutant: the deptype of the row is not looked at
SkipDependencyAnyDeptype(row, dependency, dependencyList, depend, distObject) ==
    \/ IsObjectAddressInList(dependency, dependencyList)
    \/ ~ShouldFollowDependency(dependency, depend, distObject)

\* the three "continue" tests of the scan loop of GetDependenciesForObject
SkipDependency(row, dependency, dependencyList, depend, distObject) ==
    \/ row.deptype # DEPENDENCY_NORMAL
    \/ IsObjectAddressInList(dependency, dependencyList)
    \/ ~ShouldFollowDependency(dependency, depend, distObject)

(***************************************************************************)
(* GetDependenciesForObject.  ScanDependencies is the while loop over the  *)
(* scan, from row i on; acc carries *dependencyList and what the walk has  *)
(* done.  A call nested deeper than MaxDepth exhausts the stack: the walk  *)
(* does not return (acc.overflow).                                         *)
(***************************************************************************)
\* the while loop with the dependency appended before the nested call
RECURSIVE ScanDependenciesListFirst(_, _, _, _, _, _, _)
ScanDependenciesListFirst(rows, i, acc, depth, depend, distObject, backward) ==
    IF i > Len(rows) THEN acc
    ELSE
      LET row == rows[i]
          dependency == ObjectAddressSet(row.refclassid, row.refobjid)
      IN
      IF SkipDependency(row, dependency, acc.list, depend, distObject)
      THEN ScanDependenciesListFirst(rows, i + 1, acc, depth, depend,
                                     distObject, backward)
      ELSE IF depth + 1 > MaxDepth
      THEN [acc EXCEPT !.overflow = TRUE, !.depth = MaxDepth]
      ELSE
        LET entered == [acc EXCEPT
                          !.list = Append(@, dependency),
                          !.entered = @ \cup {dependency},
                          !.depth = IF depth + 1 > @ THEN depth + 1 ELSE @]
            sub == ScanDependenciesListFirst(
                       DependScan(dependency, depend, backward), 1, entered,
                       depth + 1, depend, distObject, backward)
        IN  IF sub.overflow THEN sub
            ELSE ScanDependenciesListFirst(rows, i + 1, sub, depth, depend,
                                           distObject, backward)

\* mutant: the walk descends into a dependency it does not follow
RECURSIVE ScanDependenciesThroughPruned(_, _, _, _, _, _, _)
ScanDependenciesThroughPruned(rows, i, acc, depth, depend, distObject, backward) ==
    IF i > Len(rows) THEN acc
    ELSE
      LET row == rows[i]
          dependency == ObjectAddressSet(row.refclassid, row.refobjid)
      IN
      IF \/ row.deptype # DEPENDENCY_NORMAL
         \/ IsObjectAddressInList(dependency, acc.list)
         \/ dependency \in acc.entered
      THEN ScanDependenciesThroughPruned(rows, i + 1, acc, depth, depend,
                                         distObject, backward)
      ELSE IF depth + 1 > MaxDepth
      THEN [acc EXCEPT !.overflow = TRUE, !.depth = MaxDepth]
      ELSE
        LET entered == [acc EXCEPT
                          !.entered = @ \cup {dependency},
                          !.depth = IF depth + 1 > @ THEN depth + 1 ELSE @]
            sub == ScanDependenciesThroughPruned(
                       DependScan(dependency, depend, backward), 1, entered,
                       depth + 1, depend, distObject, backward)
        IN  IF sub.overflow THEN sub
            ELSE ScanDependenciesThroughPruned(
                     rows, i + 1,
                     IF ShouldFollowDependency(dependency, depend, distObject)
                     THEN [sub EXCEPT !.list = Append(@, dependency)]
                     ELSE sub,
                     depth, depend, distObject, backward)

RECURSIVE ScanDependencies(_, _, _, _, _, _, _)
ScanDependencies(rows, i, acc, depth, depend, distObject, backward) ==
    IF i > Len(rows) THEN acc
    ELSE
      LET row == rows[i]
          dependency == ObjectAddressSet(row.refclassid, row.refobjid)
      IN
      IF SkipDependency(row, dependency, acc.list, depend, distObject)
      THEN ScanDependencies(rows, i + 1, acc, depth, depend, distObject, backward)
      ELSE IF depth + 1 > MaxDepth
      THEN [acc EXCEPT !.overflow = TRUE, !.depth = MaxDepth]
      ELSE
        LET entered == [acc EXCEPT
                          !.entered = @ \cup {dependency},
                          !.depth = IF depth + 1 > @ THEN depth + 1 ELSE @]
            sub == ScanDependencies(DependScan(dependency, depend, backward), 1,
                                    entered, depth + 1, depend, distObject,
                                    backward)
        IN  IF sub.overflow THEN sub
            ELSE ScanDependencies(rows, i + 1,
                                  [sub EXCEPT !.list = Append(@, dependency)],
                                  depth, depend, distObject, backward)

GetDependenciesForObject(address, dependencyList, depend, distObject, backward) ==
    ScanDependencies(DependScan(address, depend, backward), 1,
                     [list |-> dependencyList, entered |-> {}, depth |-> 0,
                      overflow |-> FALSE],
                     0, depend, distObject, backward)

(***************************************************************************)
(* SpecResolve: one call of GetDependenciesForObject on every bounded      *)
(* store, catalog and target.                                              *)
(***************************************************************************)
CatalogRows ==
    {DistObjectRow(o.classId, getObjectIdentity(o)) : o \in Distributable}

InitResolve ==
    /\ pgDepend \in RowSets(MaxEdges)
    /\ pgDistObject \in SUBSET CatalogRows
    /\ scanBackward \in BOOLEAN
    /\ target \in Objects
    /\ pc = "call"
    /\ dependencies = <<>>
    /\ walkDepth = 0
    /\ walkEntered = {}
    /\ schemaCommand = TRUE
    /\ workerNodes = {}
    /\ depIdx = 1
    /\ connections = <<>>
    /\ connIdx = 1
    /\ openConnections = {}
    /\ activeAtOpen = {}
    /\ sent = <<>>
    /\ txnDistObject = pgDistObject
    /\ prevTarget = NoTarget
    /\ prevSent = 0
    /\ repeatCall = FALSE
    /\ catalogCall = NoCatalogCall
    /\ failedTarget = NoTarget
    /\ DdlAtRest

Resolve ==
    /\ pc = "call"
    /\ LET walk == GetDependenciesForObject(target, <<>>, pgDepend, pgDistObject,
                                            scanBackward)
       IN  /\ pc' = IF walk.overflow THEN "overflow" ELSE "resolved"
           /\ dependencies' = walk.list
           /\ walkDepth' = walk.depth
           /\ walkEntered' = walk.entered
    /\ UNCHANGED <<pgDepend, pgDistObject, scanBackward, target, fleetVars, ddlVars>>

NextResolve == Resolve

SpecResolve == InitResolve /\ [][NextResolve]_vars

(***************************************************************************)
(* SpecKinds: the same call on stores whose dependers are of a supported   *)
(* kind and whose referenced objects are of every kind: a namespace, an    *)
(* enum, a composite and a base type, a function.                          *)
(***************************************************************************)
KindRows ==
    {DependRow(p[1], p[2], DEPENDENCY_NORMAL) :
        p \in {q \in Distributable \X (Objects \cup {funcSum}) : q[1] # q[2]}}
    \cup {DependRow(d, extCitus, DEPENDENCY_EXTENSION) : d \in Distributable}

RECURSIVE KindRowSets(_)
KindRowSets(k) ==
    IF k = 0 THEN {{}}
    ELSE LET smaller == KindRowSets(k - 1)
         IN  smaller \cup {s \cup {r} : s \in smaller, r \in KindRows}

InitKinds ==
    /\ pgDepend \in KindRowSets(MaxEdges)
    /\ pgDistObject \in SUBSET CatalogRows
    /\ scanBackward \in BOOLEAN
    /\ target \in Distributable
    /\ pc = "call"
    /\ dependencies = <<>>
    /\ walkDepth = 0
    /\ walkEntered = {}
    /\ schemaCommand = TRUE
    /\ workerNodes = {}
    /\ depIdx = 1
    /\ connections = <<>>
    /\ connIdx = 1
    /\ openConnections = {}
    /\ activeAtOpen = {}
    /\ sent = <<>>
    /\ txnDistObject = pgDistObject
    /\ prevTarget = NoTarget
    /\ prevSent = 0
    /\ repeatCall = FALSE
    /\ catalogCall = NoCatalogCall
    /\ failedTarget = NoTarget
    /\ DdlAtRest

SpecKinds == InitKinds /\ [][NextResolve]_vars

(***************************************************************************)
(* EnsureDependenciesExistsOnAllNodes.                                     *)
(***************************************************************************)
Nodes == 1 .. NumNodes

\* ActivePrimaryNodeList: the active nodes, as a list
RECURSIVE NodeList(_)
NodeList(nodes) ==
    IF nodes = {} THEN <<>>
    ELSE LET first == CHOOSE n \in nodes : \A m \in nodes : n <= m
         IN  <<first>> \o NodeList(nodes \ {first})

\* CreateTypeDDLCommandsIdempotent: the create command of an enum or a
\* composite type, wrapped so that a worker may run it twice
CreateTypeDDLCommandsIdempotent(address) ==
    <<[command |-> "worker_create_if_not_exists",
       object |-> getObjectIdentity(address)]>>

\* CreateSchemaDDLCommand: NULL (here <<>>) when there is no schema to create
CreateSchemaDDLCommand(address, hasCommand) ==
    IF hasCommand
    THEN <<[command |-> "CREATE SCHEMA IF NOT EXISTS",
            object |-> getObjectIdentity(address)]>>
    ELSE <<>>

\* GetDependencyCreateDDLCommands
GetDependencyCreateDDLCommands(dependency, hasCommand) ==
    CASE getObjectClass(dependency) = "OCLASS_SCHEMA" ->
            CreateSchemaDDLCommand(dependency, hasCommand)
      [] getObjectClass(dependency) = "OCLASS_TYPE" ->
            CreateTypeDDLCommandsIdempotent(dependency)
      [] OTHER -> <<>>

\* ExecuteCriticalRemoteCommandList: a command that fails on the node raises
\* an ERROR in the calling backend
ExecuteCriticalRemoteCommandList(succeeds) ==
    IF succeeds THEN "RESPONSE_OKAY" ELSE "ERROR"

\* mutant: the tuple is formed and never inserted
InsertIntoPgDistObjectDropped(classId, identifier, distObject) == distObject

\* mutant: the tuple replaces the content of the relation
InsertIntoPgDistObjectReplacing(classId, identifier, distObject) ==
    {DistObjectRow(classId, identifier)}

\* InsertIntoPgDistObject: CatalogTupleInsert of (classid, identifier), a new
\* tuple of the heap whether or not the pair is there
InsertIntoPgDistObject(classId, identifier, distObject) ==
    distObject \cup
        {[DistObjectRow(classId, identifier) EXCEPT
             !.copy = 1 + Cardinality(TuplesOf(classId, identifier, distObject))]}

\* recordObjectDistributed: the same insert, from a DistObjectAddress
recordObjectDistributed(distAddress, distObject) ==
    InsertIntoPgDistObject(distAddress.classId, distAddress.identifier,
                           distObject)

\* InsertIntoPgDistObjectByAddress
InsertIntoPgDistObjectByAddress(address, distObject) ==
    InsertIntoPgDistObject(address.classId, getObjectIdentity(address), distObject)

\* mutant: the list is walked from its tail
CurrentDependencyFromTail(dependencyList, idx) ==
    dependencyList[Len(dependencyList) - idx + 1]

\* lfirst(dependencyCell) of the foreach over dependencies
CurrentDependency(dependencyList, idx) == dependencyList[idx]

\* mutant: the foreach over connections stops one connection early
AllConnectionsDoneEarly(idx, connectionList) == idx >= Len(connectionList)

\* the foreach over connections has handed the commands to every connection
AllConnectionsDone(idx, connectionList) == idx > Len(connectionList)

\* the stores of Spec: the dependencies of a composite type with an enum
\* attribute in a schema, of an extension's base type and of its enum
PropagationRows ==
    {DependRow(compOrder, nsApp, DEPENDENCY_NORMAL),
     DependRow(compOrder, enumStatus, DEPENDENCY_NORMAL),
     DependRow(enumStatus, nsApp, DEPENDENCY_NORMAL),
     DependRow(compOrder, baseInet, DEPENDENCY_NORMAL),
     DependRow(enumStatus, extCitus, DEPENDENCY_EXTENSION)}

Init ==
    /\ pgDepend \in SUBSET PropagationRows
    /\ pgDistObject = {}
    /\ scanBackward \in BOOLEAN
    /\ schemaCommand \in BOOLEAN
    /\ workerNodes \in SUBSET Nodes
    /\ pc = "idle"
    /\ target = NoTarget
    /\ dependencies = <<>>
    /\ walkDepth = 0
    /\ walkEntered = {}
    /\ depIdx = 1
    /\ connections = <<>>
    /\ connIdx = 1
    /\ openConnections = {}
    /\ activeAtOpen = {}
    /\ sent = <<>>
    /\ txnDistObject = {}
    /\ prevTarget = NoTarget
    /\ prevSent = 0
    /\ repeatCall = FALSE
    /\ catalogCall = NoCatalogCall
    /\ failedTarget = NoTarget
    /\ DdlAtRest

\* the node directory changes between two calls
ActivateNode(n) ==
    /\ pc = "idle"
    /\ n \notin workerNodes
    /\ workerNodes' = workerNodes \cup {n}
    /\ prevTarget' = NoTarget
    /\ prevSent' = 0
    /\ UNCHANGED <<resolveVars, schemaCommand, depIdx, connections, connIdx,
                   openConnections, activeAtOpen, sent, txnDistObject,
                   repeatCall,
                   catalogCall,
                   failedTarget, ddlVars>>

DeactivateNode(n) ==
    /\ pc = "idle"
    /\ n \in workerNodes
    /\ workerNodes' = workerNodes \ {n}
    /\ prevTarget' = NoTarget
    /\ prevSent' = 0
    /\ UNCHANGED <<resolveVars, schemaCommand, depIdx, connections, connIdx,
                   openConnections, activeAtOpen, sent, txnDistObject,
                   repeatCall,
                   catalogCall,
                   failedTarget, ddlVars>>

\* entry: GetDependenciesForObject(target, &dependencies)
Call(t) ==
    /\ pc = "idle"
    /\ LET walk == GetDependenciesForObject(t, <<>>, pgDepend, pgDistObject,
                                            scanBackward)
       IN  /\ pc' = IF walk.overflow THEN "overflow" ELSE "loop"
           /\ dependencies' = walk.list
           /\ walkDepth' = walk.depth
           /\ walkEntered' = walk.entered
    /\ target' = t
    /\ depIdx' = 1
    /\ connections' = <<>>
    /\ connIdx' = 1
    /\ sent' = <<>>
    /\ txnDistObject' = pgDistObject
    /\ repeatCall' = (prevTarget = t)
    /\ UNCHANGED <<pgDepend, pgDistObject, scanBackward, schemaCommand,
                   workerNodes, openConnections, activeAtOpen, prevTarget,
                   prevSent,
                   catalogCall,
                   failedTarget, ddlVars>>

\* mutant: a dependency without commands is marked as distributed
ContinueWithoutCommandsMarking ==
    /\ pc = "loop"
    /\ depIdx <= Len(dependencies)
    /\ GetDependencyCreateDDLCommands(CurrentDependency(dependencies, depIdx),
                                      schemaCommand) = <<>>
    /\ pgDistObject' = InsertIntoPgDistObjectByAddress(
                           CurrentDependency(dependencies, depIdx), pgDistObject)
    /\ depIdx' = depIdx + 1
    /\ UNCHANGED <<pgDepend, scanBackward, pc, target,
                   dependencies, walkDepth, walkEntered, schemaCommand,
                   workerNodes, connections, connIdx, openConnections,
                   activeAtOpen, sent, txnDistObject, prevTarget,
                   prevSent, repeatCall,
                   catalogCall,
                   failedTarget, ddlVars>>

\* if (list_length(ddlCommands) <= 0) continue;
ContinueWithoutCommands ==
    /\ pc = "loop"
    /\ depIdx <= Len(dependencies)
    /\ GetDependencyCreateDDLCommands(CurrentDependency(dependencies, depIdx),
                                      schemaCommand) = <<>>
    /\ depIdx' = depIdx + 1
    /\ UNCHANGED <<pgDepend, pgDistObject, scanBackward, pc, target,
                   dependencies, walkDepth, walkEntered, schemaCommand,
                   workerNodes, connections, connIdx, openConnections,
                   activeAtOpen, sent, txnDistObject, prevTarget,
                   prevSent, repeatCall,
                   catalogCall,
                   failedTarget, ddlVars>>

\* mutant: the dependency is marked before its commands are executed
OpenConnectionsMarkingFirst ==
    /\ pc = "loop"
    /\ depIdx <= Len(dependencies)
    /\ GetDependencyCreateDDLCommands(CurrentDependency(dependencies, depIdx),
                                      schemaCommand) # <<>>
    /\ connections = <<>>
    /\ workerNodes # {}
    /\ connections' = NodeList(workerNodes)
    /\ openConnections' = workerNodes
    /\ activeAtOpen' = workerNodes
    /\ connIdx' = 1
    /\ pgDistObject' = InsertIntoPgDistObjectByAddress(
                           CurrentDependency(dependencies, depIdx), pgDistObject)
    /\ pc' = "exec"
    /\ UNCHANGED <<pgDepend, scanBackward, target, dependencies, walkDepth,
                   walkEntered, schemaCommand, workerNodes, depIdx, sent,
                   txnDistObject, prevTarget, prevSent, repeatCall,
                   catalogCall,
                   failedTarget, ddlVars>>

\* first command to be executed: connect to every active node
OpenConnections ==
    /\ pc = "loop"
    /\ depIdx <= Len(dependencies)
    /\ GetDependencyCreateDDLCommands(CurrentDependency(dependencies, depIdx),
                                      schemaCommand) # <<>>
    /\ connections = <<>>
    /\ workerNodes # {}
    /\ connections' = NodeList(workerNodes)
    /\ openConnections' = workerNodes
    /\ activeAtOpen' = workerNodes
    /\ connIdx' = 1
    /\ pc' = "exec"
    /\ UNCHANGED <<pgDepend, pgDistObject, scanBackward, target, dependencies,
                   walkDepth, walkEntered, schemaCommand, workerNodes, depIdx,
                   sent, txnDistObject, prevTarget, prevSent,
                   repeatCall,
                   catalogCall,
                   failedTarget, ddlVars>>

\* mutant: the empty node list is not tested, the loop over no connection
\* executes nothing and the dependency is marked
BreakWithoutNodesSkipped ==
    /\ pc = "loop"
    /\ depIdx <= Len(dependencies)
    /\ GetDependencyCreateDDLCommands(CurrentDependency(dependencies, depIdx),
                                      schemaCommand) # <<>>
    /\ connections = <<>>
    /\ workerNodes = {}
    /\ connIdx' = 1
    /\ pc' = "exec"
    /\ UNCHANGED <<pgDepend, pgDistObject, scanBackward, target, dependencies,
                   walkDepth, walkEntered, schemaCommand, workerNodes, depIdx,
                   connections, openConnections, activeAtOpen, sent,
                   txnDistObject, prevTarget, prevSent, repeatCall,
                   catalogCall,
                   failedTarget, ddlVars>>

\* no nodes to execute on: break out of the loop
BreakWithoutNodes ==
    /\ pc = "loop"
    /\ depIdx <= Len(dependencies)
    /\ GetDependencyCreateDDLCommands(CurrentDependency(dependencies, depIdx),
                                      schemaCommand) # <<>>
    /\ connections = <<>>
    /\ workerNodes = {}
    /\ pc' = "close"
    /\ UNCHANGED <<pgDepend, pgDistObject, scanBackward, target, dependencies,
                   walkDepth, walkEntered, fleetVars, ddlVars>>

\* mutant: the connections are opened again for a later dependency
ReuseConnectionsOpenedAgain ==
    /\ pc = "loop"
    /\ depIdx <= Len(dependencies)
    /\ GetDependencyCreateDDLCommands(CurrentDependency(dependencies, depIdx),
                                      schemaCommand) # <<>>
    /\ connections # <<>>
    /\ connections' = connections \o NodeList(workerNodes)
    /\ connIdx' = 1
    /\ pc' = "exec"
    /\ UNCHANGED <<pgDepend, pgDistObject, scanBackward, target, dependencies,
                   walkDepth, walkEntered, schemaCommand, workerNodes, depIdx,
                   openConnections, activeAtOpen, sent, txnDistObject,
                   prevTarget, prevSent, repeatCall,
                   catalogCall,
                   failedTarget, ddlVars>>

\* a later dependency with commands: the connections are there already
ReuseConnections ==
    /\ pc = "loop"
    /\ depIdx <= Len(dependencies)
    /\ GetDependencyCreateDDLCommands(CurrentDependency(dependencies, depIdx),
                                      schemaCommand) # <<>>
    /\ connections # <<>>
    /\ connIdx' = 1
    /\ pc' = "exec"
    /\ UNCHANGED <<pgDepend, pgDistObject, scanBackward, target, dependencies,
                   walkDepth, walkEntered, schemaCommand, workerNodes, depIdx,
                   connections, openConnections, activeAtOpen, sent, txnDistObject, prevTarget, prevSent, repeatCall,
                   catalogCall,
                   failedTarget, ddlVars>>

SentEntry(dependency, node, succeeds) ==
    [dependency |-> dependency, node |-> node, ok |-> succeeds]

\* ExecuteCriticalRemoteCommandList(connection, ddlCommands) on the next
\* connection; the node executes the commands
ExecuteCommands ==
    /\ pc = "exec"
    /\ ~AllConnectionsDone(connIdx, connections)
    /\ ExecuteCriticalRemoteCommandList(TRUE) = "RESPONSE_OKAY"
    /\ sent' = Append(sent, SentEntry(CurrentDependency(dependencies, depIdx),
                                      connections[connIdx], TRUE))
    /\ connIdx' = connIdx + 1
    /\ UNCHANGED <<pgDepend, pgDistObject, scanBackward, pc, target,
                   dependencies, walkDepth, walkEntered, schemaCommand,
                   workerNodes, depIdx, connections, openConnections,
                   activeAtOpen, txnDistObject, prevTarget, prevSent,
                   repeatCall,
                   catalogCall,
                   failedTarget, ddlVars>>

\* mutant: the failure of the node is not raised (a non-critical execute)
ExecuteCommandsFailureIgnored ==
    /\ pc = "exec"
    /\ ~AllConnectionsDone(connIdx, connections)
    /\ sent' = Append(sent, SentEntry(CurrentDependency(dependencies, depIdx),
                                      connections[connIdx], FALSE))
    /\ connIdx' = connIdx + 1
    /\ UNCHANGED <<pgDepend, pgDistObject, scanBackward, pc, target,
                   dependencies, walkDepth, walkEntered, schemaCommand,
                   workerNodes, depIdx, connections, openConnections,
                   activeAtOpen, txnDistObject, prevTarget, prevSent,
                   repeatCall,
                   catalogCall,
                   failedTarget, ddlVars>>

\* the same call, the node fails: the ERROR leaves the function
ExecuteCommandsFails ==
    /\ pc = "exec"
    /\ ~AllConnectionsDone(connIdx, connections)
    /\ ExecuteCriticalRemoteCommandList(FALSE) = "ERROR"
    /\ sent' = Append(sent, SentEntry(CurrentDependency(dependencies, depIdx),
                                      connections[connIdx], FALSE))
    /\ pc' = "error"
    /\ UNCHANGED <<pgDepend, pgDistObject, scanBackward, target, dependencies,
                   walkDepth, walkEntered, schemaCommand, workerNodes, depIdx,
                   connections, connIdx, openConnections, activeAtOpen,
                   txnDistObject, prevTarget, prevSent, repeatCall,
                   catalogCall,
                   failedTarget, ddlVars>>

\* mark the object as distributed in this transaction
MarkDistributed ==
    /\ pc = "exec"
    /\ AllConnectionsDone(connIdx, connections)
    /\ ~UniqueViolation(CurrentDependency(dependencies, depIdx).classId,
                        getObjectIdentity(CurrentDependency(dependencies, depIdx)),
                        pgDistObject)
    /\ pgDistObject' = InsertIntoPgDistObjectByAddress(
                           CurrentDependency(dependencies, depIdx), pgDistObject)
    /\ depIdx' = depIdx + 1
    /\ pc' = "loop"
    /\ UNCHANGED <<pgDepend, scanBackward, target, dependencies, walkDepth,
                   walkEntered, schemaCommand, workerNodes, connections,
                   connIdx, openConnections, activeAtOpen, sent, txnDistObject,
                   prevTarget, prevSent, repeatCall,
                   catalogCall,
                   failedTarget, ddlVars>>

\* mutant: the function returns without CloseConnection
CloseConnectionsSkipped ==
    /\ \/ pc = "loop" /\ depIdx > Len(dependencies)
       \/ pc = "close"
    /\ pc' = "done"
    /\ UNCHANGED <<pgDepend, pgDistObject, scanBackward, target, dependencies,
                   walkDepth, walkEntered, schemaCommand, workerNodes, depIdx,
                   connections, connIdx, openConnections, activeAtOpen, sent,
                   txnDistObject, prevTarget, prevSent, repeatCall,
                   catalogCall,
                   failedTarget, ddlVars>>

\* after the loop: CloseConnection on every connection
CloseConnections ==
    /\ \/ pc = "loop" /\ depIdx > Len(dependencies)
       \/ pc = "close"
    /\ openConnections' = {}
    /\ pc' = "done"
    /\ UNCHANGED <<pgDepend, pgDistObject, scanBackward, target, dependencies,
                   walkDepth, walkEntered, schemaCommand, workerNodes, depIdx,
                   connections, connIdx, activeAtOpen, sent, txnDistObject, prevTarget, prevSent, repeatCall,
                   catalogCall,
                   failedTarget, ddlVars>>

\* the call returns and its transaction commits
Return ==
    /\ pc = "done"
    /\ pc' = "idle"
    /\ prevTarget' = target
    /\ prevSent' = Len(sent)
    /\ target' = NoTarget
    /\ dependencies' = <<>>
    /\ walkDepth' = 0
    /\ walkEntered' = {}
    /\ depIdx' = 1
    /\ connections' = <<>>
    /\ connIdx' = 1
    /\ activeAtOpen' = {}
    /\ sent' = <<>>
    /\ txnDistObject' = pgDistObject
    /\ repeatCall' = FALSE
    /\ failedTarget' = NoTarget
    /\ UNCHANGED <<pgDepend, pgDistObject, scanBackward, schemaCommand,
                   workerNodes, openConnections,
                   catalogCall, ddlVars>>

\* AfterXactConnectionHandling: at the end of the transaction the connection
\* management shuts down the connections taken with FORCE_NEW_CONNECTION
\* that are still open
AfterXactConnectionHandling(open) == {}

\* mutant: the tuples inserted by the failed call stay in pg_dist_object
AbortKeepingRecords ==
    /\ pc = "error"
    /\ pc' = "idle"
    /\ prevTarget' = NoTarget
    /\ prevSent' = 0
    /\ target' = NoTarget
    /\ dependencies' = <<>>
    /\ walkDepth' = 0
    /\ walkEntered' = {}
    /\ depIdx' = 1
    /\ connections' = <<>>
    /\ connIdx' = 1
    /\ openConnections' = AfterXactConnectionHandling(openConnections)
    /\ activeAtOpen' = {}
    /\ sent' = <<>>
    /\ repeatCall' = FALSE
    /\ catalogCall' = NoCatalogCall
    /\ failedTarget' = target
    /\ txnDistObject' = pgDistObject
    /\ UNCHANGED <<pgDepend, pgDistObject, scanBackward, schemaCommand,
                   workerNodes, ddlVars>>

\* the ERROR aborts the transaction: what it inserted into pg_dist_object is
\* gone, its connections are dropped
Abort ==
    /\ pc = "error"
    /\ pc' = "idle"
    /\ pgDistObject' = txnDistObject
    /\ prevTarget' = NoTarget
    /\ prevSent' = 0
    /\ target' = NoTarget
    /\ dependencies' = <<>>
    /\ walkDepth' = 0
    /\ walkEntered' = {}
    /\ depIdx' = 1
    /\ connections' = <<>>
    /\ connIdx' = 1
    /\ openConnections' = AfterXactConnectionHandling(openConnections)
    /\ activeAtOpen' = {}
    /\ sent' = <<>>
    /\ repeatCall' = FALSE
    /\ catalogCall' = NoCatalogCall
    /\ failedTarget' = target
    /\ UNCHANGED <<pgDepend, scanBackward, schemaCommand, workerNodes,
                   txnDistObject, ddlVars>>

Next ==
    \/ \E n \in Nodes : ActivateNode(n)
    \/ \E n \in Nodes : DeactivateNode(n)
    \/ \E t \in Distributable : Call(t)
    \/ ContinueWithoutCommands
    \/ OpenConnections
    \/ BreakWithoutNodes
    \/ ReuseConnections
    \/ ExecuteCommands
    \/ ExecuteCommandsFails
    \/ MarkDistributed
    \/ CloseConnections
    \/ Return
    \/ Abort

Spec == Init /\ [][Next]_vars

(***************************************************************************)
(* SpecShared: the same coordinator with what surrounds the call.  Between *)
(* two calls a backend uses the interface of pg_dist_object directly, in a *)
(* transaction of its own; while the call runs, the propagation of another *)
(* backend for a shared dependency commits its record, and the rendering   *)
(* of a dependency can raise an ERROR.                                     *)
(***************************************************************************)
DistClassIds == {NamespaceRelationId, TypeRelationId}
DistIdentifiers == {getObjectIdentity(nsApp), getObjectIdentity(enumStatus)}

\* the (classid, identifier) pairs of the tuples of a relation
PairsOf(distObject) == {<<tup.classid, tup.identifier>> : tup \in distObject}

\* recordObjectDistributed(makeDistObjectAddress(classId, identifier))
RecordDistributed(classId, identifier) ==
    /\ pc = "idle"
    /\ ~UniqueViolation(classId, identifier, pgDistObject)
    /\ pgDistObject' =
          recordObjectDistributed(makeDistObjectAddress(classId, identifier),
                                  pgDistObject)
    /\ catalogCall' = [op |-> "record", classId |-> classId,
                       identifier |-> identifier, before |-> pgDistObject,
                       result |-> "OK"]
    /\ pc' = "catalog"
    /\ UNCHANGED <<pgDepend, scanBackward, target, dependencies, walkDepth,
                   walkEntered, schemaCommand, workerNodes, depIdx,
                   connections, connIdx, openConnections, activeAtOpen, sent,
                   txnDistObject, prevTarget, prevSent, repeatCall,
                   failedTarget, ddlVars>>

\* the same call for a pair that is there: CatalogTupleInsert raises
RecordDistributedFails(classId, identifier) ==
    /\ pc = "idle"
    /\ UniqueViolation(classId, identifier, pgDistObject)
    /\ catalogCall' = [op |-> "record", classId |-> classId,
                       identifier |-> identifier, before |-> pgDistObject,
                       result |-> "ERROR"]
    /\ pc' = "error"
    /\ UNCHANGED <<pgDepend, pgDistObject, scanBackward, target, dependencies,
                   walkDepth, walkEntered, schemaCommand, workerNodes, depIdx,
                   connections, connIdx, openConnections, activeAtOpen, sent,
                   txnDistObject, prevTarget, prevSent, repeatCall,
                   failedTarget, ddlVars>>

\* isObjectDistributed(makeDistObjectAddress(classId, identifier))
IsDistributed(classId, identifier) ==
    /\ pc = "idle"
    /\ catalogCall' = [op |-> "contains", classId |-> classId,
                       identifier |-> identifier, before |-> pgDistObject,
                       result |-> isObjectDistributed(
                                      makeDistObjectAddress(classId, identifier),
                                      pgDistObject)]
    /\ pc' = "catalog"
    /\ UNCHANGED <<pgDepend, pgDistObject, scanBackward, target, dependencies,
                   walkDepth, walkEntered, schemaCommand, workerNodes, depIdx,
                   connections, connIdx, openConnections, activeAtOpen, sent,
                   txnDistObject, prevTarget, prevSent, repeatCall,
                   failedTarget, ddlVars>>

\* the call of the interface returns and its transaction commits
ReturnFromCatalog ==
    /\ pc = "catalog"
    /\ pc' = "idle"
    /\ catalogCall' = NoCatalogCall
    /\ txnDistObject' = pgDistObject
    /\ prevTarget' = NoTarget
    /\ prevSent' = 0
    /\ UNCHANGED <<pgDepend, pgDistObject, scanBackward, target, dependencies,
                   walkDepth, walkEntered, schemaCommand, workerNodes, depIdx,
                   connections, connIdx, openConnections, activeAtOpen, sent,
                   repeatCall,
                   failedTarget, ddlVars>>

\* another backend propagates a target that shares the listed dependency:
\* its walk found the dependency unrecorded as well, it has executed the
\* commands and its InsertIntoPgDistObjectByAddress commits while this call
\* runs (its insert waits as long as this call holds an uncommitted tuple
\* with the pair)
OtherPropagationRecords(dependency) ==
    /\ pc \in {"loop", "exec"}
    /\ \E i \in DOMAIN dependencies : dependencies[i] = dependency
    /\ ~UniqueViolation(dependency.classId, getObjectIdentity(dependency),
                        pgDistObject)
    /\ pgDistObject' = InsertIntoPgDistObjectByAddress(dependency, pgDistObject)
    /\ txnDistObject' = InsertIntoPgDistObjectByAddress(dependency,
                                                        txnDistObject)
    /\ UNCHANGED <<pgDepend, scanBackward, pc, target, dependencies, walkDepth,
                   walkEntered, schemaCommand, workerNodes, depIdx,
                   connections, connIdx, openConnections, activeAtOpen, sent,
                   prevTarget, prevSent, repeatCall, catalogCall,
                   failedTarget, ddlVars>>

\* InsertIntoPgDistObjectByAddress of a dependency another backend has
\* recorded since the walk: CatalogTupleInsert raises
MarkDistributedFails ==
    /\ pc = "exec"
    /\ AllConnectionsDone(connIdx, connections)
    /\ UniqueViolation(CurrentDependency(dependencies, depIdx).classId,
                       getObjectIdentity(CurrentDependency(dependencies, depIdx)),
                       pgDistObject)
    /\ pc' = "error"
    /\ UNCHANGED <<pgDepend, pgDistObject, scanBackward, target, dependencies,
                   walkDepth, walkEntered, fleetVars, ddlVars>>

\* GetDependencyCreateDDLCommands of the next dependency raises an ERROR
\* (the object has gone since the walk, its definition cannot be rendered)
RenderFails ==
    /\ pc = "loop"
    /\ depIdx <= Len(dependencies)
    /\ pc' = "error"
    /\ UNCHANGED <<pgDepend, pgDistObject, scanBackward, target, dependencies,
                   walkDepth, walkEntered, fleetVars, ddlVars>>

NextShared ==
    \/ Next
    \/ \E classId \in DistClassIds, identifier \in DistIdentifiers :
          RecordDistributed(classId, identifier)
    \/ \E classId \in DistClassIds, identifier \in DistIdentifiers :
          RecordDistributedFails(classId, identifier)
    \/ \E classId \in DistClassIds, identifier \in DistIdentifiers :
          IsDistributed(classId, identifier)
    \/ ReturnFromCatalog
    \/ \E dependency \in Distributable : OtherPropagationRecords(dependency)
    \/ MarkDistributedFails
    \/ RenderFails

\* the stores of SpecShared: a composite type with an enum attribute, both
\* in one schema
SharedRows ==
    {DependRow(compOrder, nsApp, DEPENDENCY_NORMAL),
     DependRow(compOrder, enumStatus, DEPENDENCY_NORMAL),
     DependRow(enumStatus, nsApp, DEPENDENCY_NORMAL)}

InitShared ==
    /\ pgDepend \in SUBSET SharedRows
    /\ pgDistObject = {}
    /\ scanBackward \in BOOLEAN
    /\ schemaCommand \in BOOLEAN
    /\ workerNodes \in SUBSET Nodes
    /\ pc = "idle"
    /\ target = NoTarget
    /\ dependencies = <<>>
    /\ walkDepth = 0
    /\ walkEntered = {}
    /\ depIdx = 1
    /\ connections = <<>>
    /\ connIdx = 1
    /\ openConnections = {}
    /\ activeAtOpen = {}
    /\ sent = <<>>
    /\ txnDistObject = {}
    /\ prevTarget = NoTarget
    /\ prevSent = 0
    /\ repeatCall = FALSE
    /\ catalogCall = NoCatalogCall
    /\ failedTarget = NoTarget
    /\ DdlAtRest

SpecShared == InitShared /\ [][NextShared]_vars

(***************************************************************************)
(* Properties of GetDependenciesForObject (SpecResolve).                   *)
(***************************************************************************)
\* the objects address depends on through a row of deptype Normal
NormalDependencies(address) ==
    {ObjectAddressSet(r.refclassid, r.refobjid) :
        r \in {q \in pgDepend : /\ q.classid = address.classId
                                /\ q.objid = address.objectId
                                /\ q.deptype = DEPENDENCY_NORMAL}}

\* the objects reached from a set of objects over one or more Normal rows
RECURSIVE NormalClosure(_)
NormalClosure(reached) ==
    LET more == reached \cup UNION {NormalDependencies(o) : o \in reached}
    IN  IF more = reached THEN reached ELSE NormalClosure(more)

NormalReachable(address) == NormalClosure(NormalDependencies(address))

ListedObjects == {dependencies[i] : i \in DOMAIN dependencies}

NoDuplicates(list) ==
    \A i, j \in DOMAIN list : list[i] = list[j] => i = j

\* the store holds only namespaces, enum types and composite types, joined
\* by Normal rows only
RestrictedGraph ==
    \A r \in pgDepend :
        /\ r.deptype = DEPENDENCY_NORMAL
        /\ ObjectAddressSet(r.classid, r.objid) \in Distributable
        /\ ObjectAddressSet(r.refclassid, r.refobjid) \in Distributable

\* C1 as stated: on a store of namespaces, enum and composite types joined by
\* Normal rows, the returned list holds every dependency of each listed
\* object strictly before that object, and holds no object twice.
C1_EveryDependencyBefore ==
    (pc = "resolved" /\ RestrictedGraph) =>
        /\ NoDuplicates(dependencies)
        /\ \A i \in DOMAIN dependencies :
              \A d \in NormalDependencies(dependencies[i]) :
                  \E j \in 1 .. (i - 1) : dependencies[j] = d

\* C1 amended: on such a store the returned list holds every dependency of
\* each listed object that is not recorded in pg_dist_object strictly before
\* that object, and holds no object twice.
C1_UnrecordedDependencyBefore ==
    (pc = "resolved" /\ RestrictedGraph) =>
        /\ NoDuplicates(dependencies)
        /\ \A i \in DOMAIN dependencies :
              \A d \in NormalDependencies(dependencies[i]) :
                  ~IsInPgDistObject(d, pgDistObject) =>
                      \E j \in 1 .. (i - 1) : dependencies[j] = d

\* the target depends on two objects, one of which depends on the other: the
\* second is met twice by the walk and listed once, before the first
C1_Witness ==
    /\ pc = "resolved"
    /\ RestrictedGraph
    /\ Len(dependencies) = 2
    /\ dependencies[1] \in NormalDependencies(dependencies[2])
    /\ {dependencies[1], dependencies[2]} \subseteq NormalDependencies(target)

\* C2: the walk terminates on every finite store, cycles of followed objects
\* included: its nesting never exceeds the number of objects that are
\* followed (supported kind, not owned by an extension, not recorded).
C2_TerminatesWithinFollowed ==
    /\ pc # "overflow"
    /\ walkDepth <= Cardinality({o \in Objects :
                        ShouldFollowDependency(o, pgDepend, pgDistObject)})

\* C8: no object of the returned list is in pg_dist_object at the time of
\* the walk.
C8_RecordedNeverReturned ==
    pc = "resolved" =>
        \A i \in DOMAIN dependencies :
            ~IsInPgDistObject(dependencies[i], pgDistObject)

\* a recorded object of a supported kind is a Normal dependency of the
\* target, and the walk returned other objects
C8_Witness ==
    /\ pc = "resolved"
    /\ dependencies # <<>>
    /\ \E d \in NormalDependencies(target) :
          /\ d \in Distributable
          /\ IsInPgDistObject(d, pgDistObject)
          /\ ~IsObjectAddressOwnedByExtension(d, pgDepend)

\* C9: an object owned by an extension is not in the returned list, and no
\* nested call of GetDependenciesForObject is made for it.
C9_ExtensionOwnedNotFollowed ==
    pc \in {"resolved", "overflow"} =>
        \A o \in Objects :
            IsObjectAddressOwnedByExtension(o, pgDepend) =>
                o \notin ListedObjects /\ o \notin walkEntered

\* the target depends on an unrecorded object of a supported kind that an
\* extension owns and that has a dependency of its own, which could be
\* followed
C9_Witness ==
    /\ pc = "resolved"
    /\ \E o \in NormalDependencies(target) \cap Distributable :
          /\ IsObjectAddressOwnedByExtension(o, pgDepend)
          /\ ~IsInPgDistObject(o, pgDistObject)
          /\ \E d \in NormalDependencies(o) :
                /\ d # target
                /\ ShouldFollowDependency(d, pgDepend, pgDistObject)
                /\ d \notin ListedObjects

\* C10: every object of the returned list is reached from the target over
\* rows of deptype Normal alone.
C10_OnlyNormalEdges ==
    pc = "resolved" =>
        \A i \in DOMAIN dependencies :
            dependencies[i] \in NormalReachable(target)

\* the target has an automatic dependency on an object that would be
\* followed, and Normal dependencies that are listed
C10_Witness ==
    /\ pc = "resolved"
    /\ dependencies # <<>>
    /\ \E r \in pgDepend :
          /\ r.classid = target.classId
          /\ r.objid = target.objectId
          /\ r.deptype = DEPENDENCY_AUTO
          /\ ShouldFollowDependency(ObjectAddressSet(r.refclassid, r.refobjid),
                                    pgDepend, pgDistObject)
          /\ ObjectAddressSet(r.refclassid, r.refobjid) \notin ListedObjects

(***************************************************************************)
(* Properties of EnsureDependenciesExistsOnAllNodes (Spec).                *)
(***************************************************************************)
\* the nodes that executed the commands of a dependency in the running call
ExecutedOn(dependency) ==
    {sent[i].node : i \in {k \in DOMAIN sent :
                             sent[k].dependency = dependency /\ sent[k].ok}}

\* the objects the running call has inserted into pg_dist_object
WrittenByCall ==
    {o \in Objects : /\ IsInPgDistObject(o, pgDistObject)
                     /\ ~IsInPgDistObject(o, txnDistObject)}

\* position of an object in the resolved list (0 when it is not listed)
PositionOf(address) ==
    IF \E i \in DOMAIN dependencies : dependencies[i] = address
    THEN CHOOSE i \in DOMAIN dependencies : dependencies[i] = address
    ELSE 0

\* a dependency executed on some of the nodes connected to and not on others
PartlyExecuted(dependency) ==
    ExecutedOn(dependency) # {} /\ ExecutedOn(dependency) # activeAtOpen

\* C3: a call that repeats the last completed call, for the same target with
\* the store and the fleet unchanged, sends no command to any node.
C3_SecondCallSendsNothing ==
    repeatCall => sent = <<>>

\* the repeated call has completed, after a first call that sent commands
C3_Witness ==
    /\ repeatCall
    /\ pc = "done"
    /\ prevSent > 0

\* C4: when the commands of a dependency fail on a node, the call ends in
\* the raised ERROR and that dependency is not in pg_dist_object.
C4_FailureNotRecorded ==
    \A i \in DOMAIN sent :
        ~sent[i].ok =>
            /\ pc = "error"
            /\ sent[i].dependency \notin WrittenByCall
            /\ ~IsInPgDistObject(sent[i].dependency, pgDistObject)

\* the second node fails on the second dependency, the first dependency is
\* recorded
C4_Witness ==
    /\ pc = "error"
    /\ WrittenByCall # {}
    /\ Len(sent) >= 2
    /\ ~sent[Len(sent)].ok
    /\ sent[Len(sent) - 1].dependency = sent[Len(sent)].dependency

\* C5: a record written by the running call is of a dependency whose
\* commands every node that was active when the call connected has executed.
C5_RecordAfterAllNodes ==
    pc # "idle" =>
        \A d \in WrittenByCall :
            /\ activeAtOpen # {}
            /\ \A n \in activeAtOpen :
                  \E i \in DOMAIN sent : sent[i] = SentEntry(d, n, TRUE)

\* a record has been written with two nodes connected
C5_Witness ==
    /\ pc = "loop"
    /\ WrittenByCall # {}
    /\ Cardinality(activeAtOpen) >= 2

\* C6: commands are sent in the order of the resolved list, and those of a
\* dependency are sent only after every earlier dependency that has commands
\* was executed on every node.
C6_ResolverOrderAcrossFleet ==
    \A j \in DOMAIN sent :
        /\ PositionOf(sent[j].dependency) > 0
        /\ \A i \in 1 .. (j - 1) :
              PositionOf(sent[i].dependency) <= PositionOf(sent[j].dependency)
        /\ \A a \in 1 .. (PositionOf(sent[j].dependency) - 1) :
              GetDependencyCreateDDLCommands(dependencies[a], schemaCommand) # <<>>
                  => \A n \in activeAtOpen :
                        \E i \in 1 .. (j - 1) :
                            sent[i] = SentEntry(dependencies[a], n, TRUE)

\* two dependencies have been executed on two nodes each
C6_Witness ==
    /\ pc = "done"
    /\ Cardinality(activeAtOpen) >= 2
    /\ \E d, e \in Objects : /\ d # e
                             /\ ExecutedOn(d) = activeAtOpen
                             /\ ExecutedOn(e) = activeAtOpen

\* C7 as stated: when the call ends, normally or in an ERROR, no dependency
\* has been executed on some of the active nodes and not on the others.
C7_AllNodesOrNone ==
    pc \in {"done", "error"} =>
        \A d \in Objects : ~PartlyExecuted(d)

\* C7 amended: when the call ends normally no dependency has been executed
\* on some of the active nodes and not on the others; when it ends in an
\* ERROR the only such dependency is the one whose commands failed, and it
\* is not recorded.
C7_AllNodesOrFailedUnrecorded ==
    /\ pc = "done" => \A d \in Objects : ~PartlyExecuted(d)
    /\ pc = "error" =>
          \A d \in Objects :
              PartlyExecuted(d) =>
                  /\ sent[Len(sent)] \in {SentEntry(d, n, FALSE) : n \in Nodes}
                  /\ d = CurrentDependency(dependencies, depIdx)
                  /\ d \notin WrittenByCall

\* the call ended in an ERROR on the second node, after the first node
\* executed the commands
C7_Witness ==
    /\ pc = "error"
    /\ \E d \in Objects : PartlyExecuted(d)


\* the kinds the follow policy of the specification admits
SupportedKind(address) ==
    \/ address.classId = NamespaceRelationId
    \/ /\ address.classId = TypeRelationId
       /\ get_typtype(address.objectId) \in {TYPTYPE_ENUM, TYPTYPE_COMPOSITE}

\* C11: the follow policy goes by kind.  Of the Normal dependencies of the
\* target and of the listed objects that are neither owned by an extension
\* nor recorded, a namespace is always listed, a type is listed exactly when
\* it is an enum or a composite type, and an object of any other class or
\* type sub-kind is never listed; meeting one does not fail the walk.
C11_FollowPolicyByKind ==
    pc = "resolved" =>
        /\ \A o \in ListedObjects : SupportedKind(o)
        /\ \A x \in {target} \cup ListedObjects :
              \A d \in NormalDependencies(x) :
                  (/\ ~IsObjectAddressOwnedByExtension(d, pgDepend)
                   /\ ~IsInPgDistObject(d, pgDistObject))
                  => (d \in ListedObjects <=> SupportedKind(d))

\* the target depends on a base type, on a function and on a namespace: the
\* walk returns the namespace alone
C11_Witness ==
    /\ pc = "resolved"
    /\ {baseInet, funcSum, nsApp} \subseteq NormalDependencies(target)
    /\ dependencies = <<nsApp>>


\* the commands GetDependencyCreateDDLCommands yields for a listed object
CommandsOf(dependency) ==
    GetDependencyCreateDDLCommands(dependency, schemaCommand)

\* C12: a call that finds no active node sends no command, opens no
\* connection and records no object.
C12_NoNodesNothingDone ==
    (pc # "idle" /\ workerNodes = {}) =>
        /\ sent = <<>>
        /\ connections = <<>>
        /\ openConnections = {}
        /\ WrittenByCall = {}

\* the call has ended without a node, although a listed object has commands
C12_Witness ==
    /\ pc = "done"
    /\ workerNodes = {}
    /\ \E i \in DOMAIN dependencies : CommandsOf(dependencies[i]) # <<>>


\* the nodes the running call holds a connection to
ConnectedNodes == {connections[i] : i \in DOMAIN connections}

\* the listed objects the loop has reached so far
ReachedDependencies ==
    {dependencies[i] : i \in {k \in DOMAIN dependencies : k <= depIdx}}

\* C13: connections are opened lazily and at most once in a call.  As long as
\* no dependency reached by the loop has commands no connection exists; the
\* connections are then one per node active at that moment, they exist
\* before the first command is sent, and the same connections serve every
\* later dependency of the call.
C13_ConnectionsOpenedOnce ==
    /\ [](/\ connections # <<>> =>
                \E d \in ReachedDependencies : CommandsOf(d) # <<>>
          /\ NoDuplicates(connections)
          /\ connections # <<>> =>
                (ConnectedNodes = workerNodes /\ activeAtOpen = workerNodes)
          /\ \A i \in DOMAIN sent : sent[i].node \in ConnectedNodes)
    /\ [][(connections # <<>> /\ pc' # "idle")
            => connections' = connections]_vars

\* two dependencies have been executed on two nodes over two connections
C13_Witness ==
    /\ Len(connections) = 2
    /\ Len(sent) = 4
    /\ sent[1].dependency # sent[4].dependency
    /\ pc = "done"


\* C14: when the call completes without error every connection it opened is
\* closed, and none is closed before the commands of the last dependency
\* have been executed on every connection.
C14_ClosedAfterLastDependency ==
    /\ pc = "done" => openConnections = {}
    /\ (pc # "idle" /\ connections # <<>> /\ openConnections = {}) =>
          /\ pc = "done"
          /\ depIdx > Len(dependencies)
          /\ \A i \in DOMAIN dependencies :
                CommandsOf(dependencies[i]) # <<>> =>
                    ExecutedOn(dependencies[i]) = ConnectedNodes

\* the call has completed after executing commands over two connections
C14_Witness ==
    /\ pc = "done"
    /\ Len(connections) = 2
    /\ sent # <<>>
    /\ openConnections = {}


C16_RecordIdempotent ==
    (/\ catalogCall.op = "record"
     /\ <<catalogCall.classId, catalogCall.identifier>>
            \in PairsOf(catalogCall.before))
    => (catalogCall.result = "OK" /\ pgDistObject = catalogCall.before)


C18_RecordsOnlyGrow ==
    [][/\ PairsOf(txnDistObject) \subseteq PairsOf(txnDistObject')
       /\ pc # "error" => PairsOf(pgDistObject) \subseteq PairsOf(pgDistObject')
       /\ PairsOf(txnDistObject) \subseteq PairsOf(pgDistObject')]_vars

\* a propagation has recorded an object on top of a pair recorded through
\* the interface, after a lookup and an earlier propagation
C18_Witness ==
    /\ pc = "done"
    /\ WrittenByCall # {}
    /\ <<TypeRelationId, getObjectIdentity(nsApp)>> \in PairsOf(txnDistObject)
    /\ IsInPgDistObject(nsApp, txnDistObject)


\* C19: the lookup is a point lookup on the pair.  It answers true exactly
\* when a tuple has both the classid and the identifier asked for (a tuple
\* with the identifier under another classid does not count), by pair and
\* by object address alike, and it leaves pg_dist_object as it was.
C19_ContainsIsPointLookup ==
    /\ catalogCall.op = "contains" =>
          /\ catalogCall.result =
                (<<catalogCall.classId, catalogCall.identifier>>
                    \in PairsOf(catalogCall.before))
          /\ pgDistObject = catalogCall.before
    /\ \A o \in Objects :
          IsInPgDistObject(o, pgDistObject)
              <=> <<o.classId, getObjectIdentity(o)>> \in PairsOf(pgDistObject)

\* the lookup of a pair has answered false although its identifier is
\* recorded under the other classid
C19_Witness ==
    /\ catalogCall.op = "contains"
    /\ ~catalogCall.result
    /\ \E tup \in pgDistObject :
          /\ tup.identifier = catalogCall.identifier
          /\ tup.classid # catalogCall.classId


\* C20: an error raised by the walk or by the rendering of a dependency
\* leaves the call before any network call: when it is raised the call has
\* opened no connection and sent no command.
C20_ErrorBeforeNetwork ==
    [][/\ (pc = "loop" /\ pc' = "error") =>
             (connections = <<>> /\ openConnections = {} /\ sent = <<>>)
       /\ pc' = "overflow" =>
             (connections' = <<>> /\ openConnections' = {} /\ sent' = <<>>)]_vars


(***************************************************************************)
(* More properties of EnsureDependenciesExistsOnAllNodes (Spec).           *)
(***************************************************************************)
\* when the call has failed, no command of a dependency listed after the one
\* in flight has been sent
NothingSentAfterFailure ==
    pc = "error" =>
        \A i \in DOMAIN sent : PositionOf(sent[i].dependency) <= depIdx

\* C21 as stated: when the execution on a node fails for a dependency, no
\* command of a later dependency is sent, and the records the call has
\* written for earlier dependencies stay in pg_dist_object.
C21_FailureKeepsEarlierRecords ==
    /\ []NothingSentAfterFailure
    /\ [][(pc = "error" /\ pc' = "idle") =>
             \A o \in WrittenByCall : IsInPgDistObject(o, pgDistObject')]_vars

\* C21 amended: when the execution on a node fails for a dependency, no
\* command of a later dependency is sent, and the records the call has
\* written for earlier dependencies are discarded with its transaction:
\* pg_dist_object is again what it was when the call began.
C21_FailureDiscardsEarlierRecords ==
    /\ []NothingSentAfterFailure
    /\ [][(pc = "error" /\ pc' = "idle") =>
             /\ pgDistObject' = txnDistObject
             /\ \A o \in WrittenByCall : ~IsInPgDistObject(o, pgDistObject')]_vars

\* a node has failed on a dependency after the call had recorded an earlier
\* one
C21_Witness ==
    /\ pc = "error"
    /\ ~sent[Len(sent)].ok
    /\ \E o \in WrittenByCall :
          PositionOf(o) < PositionOf(sent[Len(sent)].dependency)

\* an object the walk follows whatever pg_dist_object holds: of a supported
\* kind and not owned by an extension
Followable(address) ==
    SupportedKind(address) /\ ~IsObjectAddressOwnedByExtension(address, pgDepend)

RECURSIVE FollowableClosure(_)
FollowableClosure(reached) ==
    LET more == reached \cup
                {d \in UNION {NormalDependencies(o) : o \in reached} :
                    Followable(d)}
    IN  IF more = reached THEN reached ELSE FollowableClosure(more)

\* the prerequisites of an object: what it depends on over Normal rows
\* through followable objects
Prerequisites(address) ==
    FollowableClosure({d \in NormalDependencies(address) : Followable(d)})

NULL == "NULL"

AT_AddColumn == "AT_AddColumn"
AT_DropColumn == "AT_DropColumn"
AT_AlterColumnType == "AT_AlterColumnType"
AT_ChangeOwner == "AT_ChangeOwner"
DROP_RESTRICT == "DROP_RESTRICT"
DROP_CASCADE == "DROP_CASCADE"

AlterEnumIsRename(s) == s.oldVal # NULL
AlterEnumIsAddValue(s) == s.oldVal = NULL

\* type_is_distributed
type_is_distributed(typid) ==
    get_typtype(typid) \in {TYPTYPE_COMPOSITE, TYPTYPE_ENUM}

\* format_type_be_qualified of a pg_type oid
format_type_be_qualified(typeOid) ==
    getObjectIdentity(ObjectAddressSet(TypeRelationId, typeOid))

quote_literal_cstr(string) == <<"'", string, "'">>

quote_qualified_identifier(schemaname, relname) == <<schemaname, ".", relname>>

\* ereport(ERROR, ...) inside a deparser
DeparseError(errmsg) == <<"ERROR", errmsg>>

IsDeparseError(sql) == Len(sql) > 0 /\ sql[1] = "ERROR"

HasPiece(sql, piece) == \E i \in DOMAIN sql : sql[i] = piece

\* appendColumnDef: the column name when set, then the qualified type
appendColumnDef(columnDef) ==
    (IF columnDef.colname # NULL THEN <<columnDef.colname>> ELSE <<>>)
        \o <<format_type_be_qualified(columnDef.typeOid)>>

RECURSIVE appendColumnDefList(_, _)
appendColumnDefList(columnDefs, i) ==
    IF i > Len(columnDefs) THEN <<>>
    ELSE (IF i # 1 THEN <<", ">> ELSE <<>>)
             \o appendColumnDef(columnDefs[i])
             \o appendColumnDefList(columnDefs, i + 1)

RECURSIVE appendStringList(_, _)
appendStringList(strings, i) ==
    IF i > Len(strings) THEN <<>>
    ELSE (IF i # 1 THEN <<", ">> ELSE <<>>)
             \o quote_literal_cstr(strings[i])
             \o appendStringList(strings, i + 1)

\* deparse_composite_type_stmt / appendCompositeTypeStmt
appendCompositeTypeStmt(s) ==
    <<"CREATE TYPE">>
        \o quote_qualified_identifier(s.typevar.schemaname, s.typevar.relname)
        \o <<"AS (">> \o appendColumnDefList(s.coldeflist, 1) \o <<");">>

\* deparse_create_enum_stmt / appendCreateEnumStmt
appendCreateEnumStmt(s) ==
    <<"CREATE TYPE">>
        \o quote_qualified_identifier(s.typeName.schemaname, s.typeName.relname)
        \o <<"AS ENUM (">> \o appendStringList(s.vals, 1) \o <<");">>

appendAlterTypeCmdAddColumn(alterTableCmd) ==
    <<" ADD ATTRIBUTE ">> \o appendColumnDef(alterTableCmd.def)

appendAlterTypeCmdDropColumn(alterTableCmd) ==
    <<" DROP ATTRIBUTE ", alterTableCmd.name>>
        \o (IF alterTableCmd.behavior = DROP_CASCADE
            THEN <<" CASCADE">> ELSE <<>>)

appendAlterTypeCmdAlterColumnType(alterTableCmd) ==
    <<" ALTER ATTRIBUTE ", alterTableCmd.name, " SET DATA TYPE ">>
        \o appendColumnDef(alterTableCmd.def)
        \o (IF alterTableCmd.behavior = DROP_CASCADE
            THEN <<" CASCADE">> ELSE <<>>)

\* appendAlterTypeCmd with a default branch that appends nothing
appendAlterTypeCmdIgnoringUnsupported(alterTableCmd) ==
    CASE alterTableCmd.subtype = AT_AddColumn ->
             appendAlterTypeCmdAddColumn(alterTableCmd)
      [] alterTableCmd.subtype = AT_DropColumn ->
             appendAlterTypeCmdDropColumn(alterTableCmd)
      [] alterTableCmd.subtype = AT_AlterColumnType ->
             appendAlterTypeCmdAlterColumnType(alterTableCmd)
      [] OTHER -> <<>>

\* appendAlterTypeCmd: the three supported sub-commands, an error for any
\* other
appendAlterTypeCmd(alterTableCmd) ==
    CASE alterTableCmd.subtype = AT_AddColumn ->
             appendAlterTypeCmdAddColumn(alterTableCmd)
      [] alterTableCmd.subtype = AT_DropColumn ->
             appendAlterTypeCmdDropColumn(alterTableCmd)
      [] alterTableCmd.subtype = AT_AlterColumnType ->
             appendAlterTypeCmdAlterColumnType(alterTableCmd)
      [] OTHER -> DeparseError("unsupported subtype for alter table command")

\* the foreach of appendAlterTypeStmt: an error raised for one sub-command
\* ends the deparse
RECURSIVE appendAlterTypeCmds(_, _, _)
appendAlterTypeCmds(cmds, i, buf) ==
    IF i > Len(cmds) THEN buf \o <<";">>
    ELSE LET text == appendAlterTypeCmd(cmds[i])
         IN  IF IsDeparseError(text) THEN text
             ELSE appendAlterTypeCmds(cmds, i + 1,
                      buf \o (IF i # 1 THEN <<", ">> ELSE <<>>) \o text)

\* deparse_alter_type_stmt / appendAlterTypeStmt
appendAlterTypeStmt(s) ==
    appendAlterTypeCmds(s.cmds, 1,
        <<"ALTER TYPE", format_type_be_qualified(s.relation)>>)

\* appendAlterEnumStmt that appends IF NOT EXISTS for no statement
appendAlterEnumStmtNeverSkipping(s) ==
    <<"ALTER TYPE", format_type_be_qualified(s.typeName)>> \o
    (IF AlterEnumIsRename(s)
     THEN <<" RENAME VALUE ">> \o quote_literal_cstr(s.oldVal)
              \o <<" TO ">> \o quote_literal_cstr(s.newVal) \o <<";">>
     ELSE <<" ADD VALUE ">>
              \o quote_literal_cstr(s.newVal)
              \o (IF s.newValNeighbor # NULL
                  THEN <<IF s.newValIsAfter THEN "AFTER" ELSE "BEFORE">>
                           \o quote_literal_cstr(s.newValNeighbor)
                  ELSE <<>>)
              \o <<";">>)

\* deparse_alter_enum_stmt / appendAlterEnumStmt
appendAlterEnumStmt(s) ==
    <<"ALTER TYPE", format_type_be_qualified(s.typeName)>> \o
    (IF AlterEnumIsRename(s)
     THEN <<" RENAME VALUE ">> \o quote_literal_cstr(s.oldVal)
              \o <<" TO ">> \o quote_literal_cstr(s.newVal) \o <<";">>
     ELSE <<" ADD VALUE ">>
              \o (IF s.skipIfNewValExists
                  THEN <<"IF NOT EXISTS ">> ELSE <<>>)
              \o quote_literal_cstr(s.newVal)
              \o (IF s.newValNeighbor # NULL
                  THEN <<IF s.newValIsAfter THEN "AFTER" ELSE "BEFORE">>
                           \o quote_literal_cstr(s.newValNeighbor)
                  ELSE <<>>)
              \o <<";">>)

\* FilterNameListForDistributedTypes: a new list of the names of the list
\* whose type is distributed, in the order of the list
FilterNameListForDistributedTypes(objects) ==
    SelectSeq(objects, LAMBDA typeOid : type_is_distributed(typeOid))

\* appendTypeNameList: the qualified names of the types, separated by commas
RECURSIVE appendTypeNameList(_, _)
appendTypeNameList(objects, i) ==
    IF i > Len(objects) THEN <<>>
    ELSE (IF i # 1 THEN <<", ">> ELSE <<>>)
             \o <<format_type_be_qualified(objects[i])>>
             \o appendTypeNameList(objects, i + 1)

\* deparse_drop_type_stmt / appendDropTypeStmt
appendDropTypeStmt(s) ==
    <<"DROP TYPE ">> \o appendTypeNameList(s.objects, 1)
        \o (IF s.behavior = DROP_CASCADE THEN <<" CASCADE">> ELSE <<>>)
        \o <<";">>

\* the deparser a planner calls for its statement
Deparse(s) ==
    CASE s.kind = "CompositeTypeStmt" -> appendCompositeTypeStmt(s)
      [] s.kind = "CreateEnumStmt" -> appendCreateEnumStmt(s)
      [] s.kind = "AlterTableStmt" -> appendAlterTypeStmt(s)
      [] s.kind = "AlterEnumStmt" -> appendAlterEnumStmt(s)
      [] s.kind = "DropStmt" -> appendDropTypeStmt(s)

(***************************************************************************)
(* The statements the planners of type.c are called with.                  *)
(***************************************************************************)
MaxCmds == 2

NoColumnDef == [colname |-> NULL, typeOid |-> baseInet.objectId]

AlterTableCmds ==
    {[subtype |-> AT_AddColumn, name |-> NULL, behavior |-> DROP_RESTRICT,
      def |-> [colname |-> "note", typeOid |-> enumStatus.objectId]],
     [subtype |-> AT_DropColumn, name |-> "note", behavior |-> DROP_RESTRICT,
      def |-> NoColumnDef],
     [subtype |-> AT_DropColumn, name |-> "note", behavior |-> DROP_CASCADE,
      def |-> NoColumnDef],
     [subtype |-> AT_AlterColumnType, name |-> "note",
      behavior |-> DROP_RESTRICT,
      def |-> [colname |-> NULL, typeOid |-> baseInet.objectId]],
     [subtype |-> AT_ChangeOwner, name |-> "admin",
      behavior |-> DROP_RESTRICT, def |-> NoColumnDef]}

AlterTableStmts ==
    {[kind |-> "AlterTableStmt", relation |-> typeOid, cmds |-> cmds] :
        typeOid \in {compOrder.objectId, baseInet.objectId},
        cmds \in UNION {[1 .. n -> AlterTableCmds] : n \in 1 .. MaxCmds}}

AlterEnumStmts ==
    {[kind |-> "AlterEnumStmt", typeName |-> typeOid, oldVal |-> oldVal,
      newVal |-> "archived", newValNeighbor |-> neighbor,
      newValIsAfter |-> isAfter, skipIfNewValExists |-> skip] :
        typeOid \in {enumStatus.objectId, baseInet.objectId},
        oldVal \in {NULL, "open"}, neighbor \in {NULL, "closed"},
        isAfter \in BOOLEAN, skip \in BOOLEAN}

CompositeTypeStmts ==
    {[kind |-> "CompositeTypeStmt",
      typevar |-> [schemaname |-> "app", relname |-> "order"],
      coldeflist |-> coldeflist] :
        coldeflist \in
            {<<[colname |-> "state", typeOid |-> enumStatus.objectId]>>,
             <<[colname |-> "state", typeOid |-> enumStatus.objectId],
               [colname |-> "origin", typeOid |-> baseInet.objectId]>>}}

CreateEnumStmts ==
    {[kind |-> "CreateEnumStmt",
      typeName |-> [schemaname |-> "app", relname |-> "status"],
      vals |-> vals] :
        vals \in {<<"open">>, <<"open", "closed">>}}

\* longest list of types in a DROP TYPE statement
MaxObjects == 2

\* DROP TYPE of one or more types, each named once
DropStmts ==
    {[kind |-> "DropStmt", objects |-> objects, behavior |-> behavior] :
        objects \in {o \in UNION {[1 .. n -> {compOrder.objectId,
                                             enumStatus.objectId,
                                             baseInet.objectId}] :
                                     n \in 1 .. MaxObjects} :
                        \A i, j \in DOMAIN o : o[i] = o[j] => i = j},
        behavior \in {DROP_RESTRICT, DROP_CASCADE}}

TypeStmts ==
    AlterTableStmts \cup AlterEnumStmts \cup CompositeTypeStmts
        \cup CreateEnumStmts \cup DropStmts

(***************************************************************************)
(* The workers as the planners see them.  A worker is reachable or not,    *)
(* and its copy of the enum has the label an ADD VALUE adds or not.        *)
(***************************************************************************)
ALL_WORKERS == "ALL_WORKERS"
DISABLE_DDL_PROPAGATION == <<"SET citus.enable_ddl_propagation TO 'off'">>
RESPONSE_OKAY == "RESPONSE_OKAY"
RESPONSE_NOT_OKAY == "RESPONSE_NOT_OKAY"
QUERY_SEND_FAILED == "QUERY_SEND_FAILED"

WorkerStates == [reachable : BOOLEAN, hasValue : BOOLEAN]

IsAddValue(command) == HasPiece(command, " ADD VALUE ")

\* the answer of one worker to one command: no answer from a worker that
\* cannot be reached, a rejection of an ADD VALUE without IF NOT EXISTS of a
\* label the worker's enum has
ExecuteOptionalRemoteCommand(command, worker) ==
    IF ~worker.reachable THEN QUERY_SEND_FAILED
    ELSE IF /\ IsAddValue(command)
            /\ ~HasPiece(command, "IF NOT EXISTS ")
            /\ worker.hasValue
         THEN RESPONSE_NOT_OKAY
         ELSE RESPONSE_OKAY

\* the worker after it has answered the command
WorkerAfter(command, worker, response) ==
    IF response = RESPONSE_OKAY /\ IsAddValue(command)
    THEN [worker EXCEPT !.hasValue = TRUE]
    ELSE worker

WorseResponse(a, b) == IF a = RESPONSE_OKAY THEN b ELSE a

\* the commands of a list run on one worker in order, up to the first that
\* is not answered with RESPONSE_OKAY
RECURSIVE ExecuteCommandListOnWorker(_, _, _, _)
ExecuteCommandListOnWorker(commands, i, node, run) ==
    IF i > Len(commands) THEN run
    ELSE LET response ==
                 ExecuteOptionalRemoteCommand(commands[i], run.worker)
             after ==
                 [worker |-> WorkerAfter(commands[i], run.worker, response),
                  log |-> Append(run.log,
                                 [workers |-> node, command |-> commands[i],
                                  response |-> response]),
                  response |-> response]
         IN  IF response # RESPONSE_OKAY THEN after
             ELSE ExecuteCommandListOnWorker(commands, i + 1, node, after)

\* SendBareOptionalCommandListToWorkersAsUser: the list is run on one worker
\* after the other, outside a transaction; a worker that fails does not end
\* the call, the call returns the first response that is not RESPONSE_OKAY
RECURSIVE SendBareOptionalCommandListToWorkersAsUser(_, _, _, _)
SendBareOptionalCommandListToWorkersAsUser(nodeList, i, commands, acc) ==
    IF i > Len(nodeList) THEN acc
    ELSE LET node == nodeList[i]
             run == ExecuteCommandListOnWorker(commands, 1, node,
                        [worker |-> acc.workers[node], log |-> acc.log,
                         response |-> RESPONSE_OKAY])
         IN  SendBareOptionalCommandListToWorkersAsUser(nodeList, i + 1,
                 commands,
                 [workers |-> [acc.workers EXCEPT ![node] = run.worker],
                  log |-> run.log,
                  response |-> WorseResponse(acc.response, run.response)])

\* SendCommandToWorkersAsUser(ALL_WORKERS, ...): the command runs in the
\* coordinator's transaction on every worker, and it is an error when one of
\* them cannot be reached
SendCommandToWorkersAsUser(command, workers) ==
    [workers |-> ALL_WORKERS, command |-> command,
     response |-> IF \A n \in DOMAIN workers : workers[n].reachable
                  THEN RESPONSE_OKAY ELSE QUERY_SEND_FAILED]

(***************************************************************************)
(* The planners: the steps each runs for its statement, in order.          *)
(***************************************************************************)
PlanCompositeTypeStmt(s) ==
    <<"EnsureCoordinator", "EnsureSchemaExistsOnAllNodes", "deparse",
      "EnsureSequentialModeForTypeDDL", "SendDisableDDLPropagation",
      "SendStatement">>

\* PlanCompositeTypeStmt and PlanCreateEnumStmt with the namespace ensured
\* after the statement is sent
PlanCreateEnumStmtSchemaLast(s) ==
    <<"EnsureCoordinator", "deparse", "EnsureSequentialModeForTypeDDL",
      "SendDisableDDLPropagation", "SendStatement",
      "EnsureSchemaExistsOnAllNodes">>

PlanCreateEnumStmt(s) ==
    <<"EnsureCoordinator", "EnsureSchemaExistsOnAllNodes", "deparse",
      "EnsureSequentialModeForTypeDDL", "SendDisableDDLPropagation",
      "SendStatement">>

\* PlanAlterTypeStmt that deparses after the commands are sent
PlanAlterTypeStmtDeparseLast(s) ==
    IF ~type_is_distributed(s.relation) THEN <<>>
    ELSE <<"EnsureCoordinator", "EnsureSequentialModeForTypeDDL",
           "SendDisableDDLPropagation", "deparse", "SendStatement">>

PlanAlterTypeStmt(s) ==
    IF ~type_is_distributed(s.relation) THEN <<>>
    ELSE <<"EnsureCoordinator", "deparse", "EnsureSequentialModeForTypeDDL",
           "SendDisableDDLPropagation", "SendStatement">>

\* PlanAlterEnumStmt that sends every statement the transactional way
PlanAlterEnumStmtAllSequential(s) ==
    IF ~type_is_distributed(s.typeName) THEN <<>>
    ELSE <<"EnsureCoordinator", "deparse", "EnsureSequentialModeForTypeDDL",
           "SendDisableDDLPropagation", "SendStatement">>

PlanAlterEnumStmt(s) ==
    IF ~type_is_distributed(s.typeName) THEN <<>>
    ELSE <<"EnsureCoordinator", "deparse">> \o
         (IF AlterEnumIsAddValue(s)
          THEN <<"SendBareOptionalCommandList", "CheckResponse">>
          ELSE <<"EnsureSequentialModeForTypeDDL",
                 "SendDisableDDLPropagation", "SendStatement">>)

\* PlanDropTypeStmt that sends the statement without the command that
\* disables the propagation
PlanDropTypeStmtPropagating(s) ==
    IF Len(FilterNameListForDistributedTypes(s.objects)) <= 0 THEN <<>>
    ELSE <<"EnsureCoordinator", "deparseDistributedTypes",
           "EnsureSequentialModeForTypeDDL", "SendStatement">>

\* PlanDropTypeStmt that switches to the sequential mode after it has sent
PlanDropTypeStmtSequentialLast(s) ==
    IF Len(FilterNameListForDistributedTypes(s.objects)) <= 0 THEN <<>>
    ELSE <<"EnsureCoordinator", "deparseDistributedTypes",
           "SendDisableDDLPropagation", "SendStatement",
           "EnsureSequentialModeForTypeDDL">>

PlanDropTypeStmt(s) ==
    IF Len(FilterNameListForDistributedTypes(s.objects)) <= 0 THEN <<>>
    ELSE <<"EnsureCoordinator", "deparseDistributedTypes",
           "EnsureSequentialModeForTypeDDL", "SendDisableDDLPropagation",
           "SendStatement">>

PlanSteps(s) ==
    CASE s.kind = "CompositeTypeStmt" -> PlanCompositeTypeStmt(s)
      [] s.kind = "CreateEnumStmt" -> PlanCreateEnumStmt(s)
      [] s.kind = "AlterTableStmt" -> PlanAlterTypeStmt(s)
      [] s.kind = "AlterEnumStmt" -> PlanAlterEnumStmt(s)
      [] s.kind = "DropStmt" -> PlanDropTypeStmt(s)
      [] OTHER -> <<>>

\* the planner is about to run the step
AtStep(step) ==
    /\ result.status = "running"
    /\ planPc <= Len(PlanSteps(stmt))
    /\ PlanSteps(stmt)[planPc] = step

\* ereport(ERROR, ...): the planner ends where it is
Raise(errmsg) ==
    /\ result' = [result EXCEPT !.status = "error", !.errmsg = errmsg]
    /\ UNCHANGED planPc

\* EnsureCoordinator: an error on a node that is not the coordinator
EnsureCoordinator ==
    /\ AtStep("EnsureCoordinator")
    /\ \E isCoordinator \in BOOLEAN :
          IF isCoordinator
          THEN planPc' = planPc + 1 /\ UNCHANGED result
          ELSE Raise("operation is not allowed on this node")
    /\ UNCHANGED <<stmt, xact, workerCommands, workerState>>
    /\ UNCHANGED <<resolveVars, fleetVars>>

CreateSchemaCommand == <<"CREATE SCHEMA IF NOT EXISTS ", "app">>

\* EnsureSchemaExistsOnAllNodes: the namespace of the new type is created
\* on every worker that lacks it, and it is an error when that fails
EnsureSchemaExistsOnAllNodes ==
    /\ AtStep("EnsureSchemaExistsOnAllNodes")
    /\ LET send == SendCommandToWorkersAsUser(CreateSchemaCommand, workerState)
       IN  /\ workerCommands' = Append(workerCommands, send)
           /\ IF send.response = RESPONSE_OKAY
              THEN planPc' = planPc + 1 /\ UNCHANGED result
              ELSE Raise("failure on connection marked as essential")
    /\ UNCHANGED <<stmt, xact, workerState>>
    /\ UNCHANGED <<resolveVars, fleetVars>>

\* the deparse of the statement into the text for the workers
DeparseStatement ==
    /\ AtStep("deparse")
    /\ LET sql == Deparse(stmt)
       IN  IF IsDeparseError(sql)
           THEN Raise(sql[2])
           ELSE /\ result' = [result EXCEPT !.sql = sql]
                /\ planPc' = planPc + 1
    /\ UNCHANGED <<stmt, xact, workerCommands, workerState>>
    /\ UNCHANGED <<resolveVars, fleetVars>>

\* PlanDropTypeStmt that leaves the list of the distributed types in the
\* statement
DeparseDistributedTypesKeepingSwap ==
    /\ AtStep("deparseDistributedTypes")
    /\ LET distributedTypes == FilterNameListForDistributedTypes(stmt.objects)
           swapped == [stmt EXCEPT !.objects = distributedTypes]
       IN  /\ result' = [result EXCEPT !.sql = Deparse(swapped)]
           /\ stmt' = swapped
    /\ planPc' = planPc + 1
    /\ UNCHANGED <<xact, workerCommands, workerState>>
    /\ UNCHANGED <<resolveVars, fleetVars>>

\* PlanDropTypeStmt: the objects of the statement are swapped for the
\* distributed types, the statement is deparsed, and the old list is put
\* back
DeparseDistributedTypes ==
    /\ AtStep("deparseDistributedTypes")
    /\ LET oldTypes == stmt.objects
           distributedTypes == FilterNameListForDistributedTypes(oldTypes)
           swapped == [stmt EXCEPT !.objects = distributedTypes]
       IN  /\ result' = [result EXCEPT !.sql = Deparse(swapped)]
           /\ stmt' = [swapped EXCEPT !.objects = oldTypes]
    /\ planPc' = planPc + 1
    /\ UNCHANGED <<xact, workerCommands, workerState>>
    /\ UNCHANGED <<resolveVars, fleetVars>>

\* EnsureSequentialModeForTypeDDL
EnsureSequentialModeForTypeDDL ==
    /\ AtStep("EnsureSequentialModeForTypeDDL")
    /\ IF xact.parallelQueryExecuted
       THEN /\ Raise("cannot create or modify type because there was a parallel operation")
            /\ UNCHANGED xact
       ELSE /\ xact' = [xact EXCEPT !.multiShardModifyMode = "sequential"]
            /\ planPc' = planPc + 1
            /\ UNCHANGED result
    /\ UNCHANGED <<stmt, workerCommands, workerState>>
    /\ UNCHANGED <<resolveVars, fleetVars>>

\* SendCommandToWorkersAsUser(ALL_WORKERS, DISABLE_DDL_PROPAGATION, NULL)
SendDisableDDLPropagation ==
    /\ AtStep("SendDisableDDLPropagation")
    /\ LET send == SendCommandToWorkersAsUser(DISABLE_DDL_PROPAGATION,
                                              workerState)
       IN  /\ workerCommands' = Append(workerCommands, send)
           /\ IF send.response = RESPONSE_OKAY
              THEN planPc' = planPc + 1 /\ UNCHANGED result
              ELSE Raise("failure on connection marked as essential")
    /\ UNCHANGED <<stmt, xact, workerState>>
    /\ UNCHANGED <<resolveVars, fleetVars>>

\* SendCommandToWorkersAsUser(ALL_WORKERS, sql, NULL) with the deparsed
\* statement
SendStatement ==
    /\ AtStep("SendStatement")
    /\ LET send == SendCommandToWorkersAsUser(result.sql, workerState)
       IN  /\ workerCommands' = Append(workerCommands, send)
           /\ IF send.response = RESPONSE_OKAY
              THEN planPc' = planPc + 1 /\ UNCHANGED result
              ELSE Raise("failure on connection marked as essential")
    /\ UNCHANGED <<stmt, xact, workerState>>
    /\ UNCHANGED <<resolveVars, fleetVars>>

\* PlanAlterEnumStmt, ADD VALUE: DISABLE_DDL_PROPAGATION and the statement
\* go to the workers as a bare optional command list
SendBareOptionalCommandList ==
    /\ AtStep("SendBareOptionalCommandList")
    /\ LET commands == <<DISABLE_DDL_PROPAGATION, result.sql>>
           sendResult ==
               SendBareOptionalCommandListToWorkersAsUser(
                   NodeList(DOMAIN workerState), 1, commands,
                   [workers |-> workerState, log |-> workerCommands,
                    response |-> RESPONSE_OKAY])
       IN  /\ workerState' = sendResult.workers
           /\ workerCommands' = sendResult.log
           /\ result' = [result EXCEPT !.response = sendResult.response]
    /\ planPc' = planPc + 1
    /\ UNCHANGED <<stmt, xact>>
    /\ UNCHANGED <<resolveVars, fleetVars>>

\* the warning path of PlanAlterEnumStmt with the statement deparsed as it
\* was sent
CheckResponseAsSent ==
    /\ AtStep("CheckResponse")
    /\ IF result.response # RESPONSE_OKAY
       THEN result' = [result EXCEPT !.warning = appendAlterEnumStmt(stmt)]
       ELSE UNCHANGED result
    /\ planPc' = planPc + 1
    /\ UNCHANGED <<stmt, xact, workerCommands, workerState>>
    /\ UNCHANGED <<resolveVars, fleetVars>>

\* PlanAlterEnumStmt, ADD VALUE: when the result is not RESPONSE_OKAY the
\* statement is deparsed once more with skipIfNewValExists set, the flag is
\* put back, and the text goes into the detail of a WARNING
CheckResponse ==
    /\ AtStep("CheckResponse")
    /\ IF result.response # RESPONSE_OKAY
       THEN LET oldSkipIfNewValueExists == stmt.skipIfNewValExists
                ifNotExists == [stmt EXCEPT !.skipIfNewValExists = TRUE]
                restored == [ifNotExists EXCEPT
                                !.skipIfNewValExists = oldSkipIfNewValueExists]
            IN  /\ result' = [result EXCEPT
                                 !.warning = appendAlterEnumStmt(ifNotExists)]
                /\ stmt' = restored
       ELSE UNCHANGED <<result, stmt>>
    /\ planPc' = planPc + 1
    /\ UNCHANGED <<xact, workerCommands, workerState>>
    /\ UNCHANGED <<resolveVars, fleetVars>>

\* return NIL / return NULL of a planner
ReturnFromPlanner ==
    /\ result.status = "running"
    /\ planPc > Len(PlanSteps(stmt))
    /\ result' = [result EXCEPT !.status = "returned"]
    /\ UNCHANGED <<stmt, planPc, xact, workerCommands, workerState>>
    /\ UNCHANGED <<resolveVars, fleetVars>>

NextTypeDDL ==
    \/ EnsureCoordinator
    \/ EnsureSchemaExistsOnAllNodes
    \/ DeparseStatement
    \/ DeparseDistributedTypes
    \/ EnsureSequentialModeForTypeDDL
    \/ SendDisableDDLPropagation
    \/ SendStatement
    \/ SendBareOptionalCommandList
    \/ CheckResponse
    \/ ReturnFromPlanner

\* no propagation is running and the catalogs are empty
PropagationAtRest ==
    /\ pgDepend = {}
    /\ pgDistObject = {}
    /\ scanBackward = FALSE
    /\ schemaCommand = FALSE
    /\ workerNodes = {}
    /\ pc = "idle"
    /\ target = NoTarget
    /\ dependencies = <<>>
    /\ walkDepth = 0
    /\ walkEntered = {}
    /\ depIdx = 1
    /\ connections = <<>>
    /\ connIdx = 1
    /\ openConnections = {}
    /\ activeAtOpen = {}
    /\ sent = <<>>
    /\ txnDistObject = {}
    /\ prevTarget = NoTarget
    /\ prevSent = 0
    /\ repeatCall = FALSE
    /\ catalogCall = NoCatalogCall
    /\ failedTarget = NoTarget

PlannerStarts ==
    [status |-> "running", sql |-> <<>>, response |-> RESPONSE_OKAY,
     warning |-> <<>>, errmsg |-> ""]

\* a planner of type.c is called with a statement on the coordinator
InitTypeDDL ==
    /\ PropagationAtRest
    /\ stmt \in TypeStmts
    /\ planPc = 1
    /\ xact \in {[NoXact EXCEPT !.parallelQueryExecuted = b] : b \in BOOLEAN}
    /\ result = PlannerStarts
    /\ workerCommands = <<>>
    /\ workerState \in [Nodes -> WorkerStates]

SpecTypeDDL == InitTypeDDL /\ [][NextTypeDDL]_vars


(***************************************************************************)
(* Claims on PlanAlterEnumStmt, checked under SpecTypeDDL.                 *)
(***************************************************************************)
\* PlanAlterEnumStmt is adding a value to a distributed enum
AddValueCall ==
    /\ stmt.kind = "AlterEnumStmt"
    /\ AlterEnumIsAddValue(stmt)
    /\ type_is_distributed(stmt.typeName)

\* a worker has not answered a command with RESPONSE_OKAY
SomeWorkerFailed ==
    \E i \in DOMAIN workerCommands :
        workerCommands[i].response # RESPONSE_OKAY

WithoutPiece(sql, piece) == SelectSeq(sql, LAMBDA p : p # piece)

\* C23: when a worker fails during an enum add-value, PlanAlterEnumStmt
\* raises no error, and when it has returned it has raised a warning whose
\* text is the statement that was sent with IF NOT EXISTS in it, whether or
\* not the statement that was sent had it.
C23_AddValueFailureWarns ==
    (AddValueCall /\ SomeWorkerFailed) =>
        /\ result.status # "error"
        /\ result.status = "returned" =>
              /\ HasPiece(result.warning, "IF NOT EXISTS ")
              /\ WithoutPiece(result.warning, "IF NOT EXISTS ") =
                     WithoutPiece(result.sql, "IF NOT EXISTS ")
              /\ result.warning =
                     appendAlterEnumStmt(
                         [stmt EXCEPT !.skipIfNewValExists = TRUE])

\* an add-value without IF NOT EXISTS has returned with a warning after a
\* worker could not be reached
C23_Witness ==
    /\ AddValueCall
    /\ ~stmt.skipIfNewValExists
    /\ result.status = "returned"
    /\ \E i \in DOMAIN workerCommands :
          workerCommands[i].response = QUERY_SEND_FAILED
    /\ HasPiece(result.warning, "IF NOT EXISTS ")
    /\ ~HasPiece(result.sql, "IF NOT EXISTS ")

\* C24: when an enum add-value sent without IF NOT EXISTS has returned and
\* the only rejections came from workers whose enum has the value already,
\* no warning has been raised.
C24_ValueExistsTolerated ==
    (/\ AddValueCall
     /\ ~stmt.skipIfNewValExists
     /\ result.status = "returned"
     /\ \A i \in DOMAIN workerCommands :
           workerCommands[i].response \in {RESPONSE_OKAY, RESPONSE_NOT_OKAY})
        => result.warning = <<>>


(***************************************************************************)
(* Claims on the planners of CREATE TYPE and ALTER TYPE, checked under     *)
(* SpecTypeDDL.                                                            *)
(***************************************************************************)
CreateTypeCall == stmt.kind \in {"CompositeTypeStmt", "CreateEnumStmt"}

IsCreateType(command) == HasPiece(command, "CREATE TYPE")

\* C25: the statement that creates a composite or an enum type is sent to
\* the workers only after the namespace of the type was ensured on all
\* nodes, and it is not sent at all when ensuring the namespace failed.
C25_NamespaceBeforeCreateType ==
    CreateTypeCall =>
        /\ \A i \in DOMAIN workerCommands :
              IsCreateType(workerCommands[i].command) =>
                  \E j \in 1 .. (i - 1) :
                      /\ workerCommands[j].command = CreateSchemaCommand
                      /\ workerCommands[j].workers = ALL_WORKERS
                      /\ workerCommands[j].response = RESPONSE_OKAY
        /\ (\E j \in DOMAIN workerCommands :
                /\ workerCommands[j].command = CreateSchemaCommand
                /\ workerCommands[j].response # RESPONSE_OKAY)
               => /\ result.status = "error"
                  /\ \A i \in DOMAIN workerCommands :
                        ~IsCreateType(workerCommands[i].command)

\* PlanCreateEnumStmt has returned after it sent CREATE TYPE ... AS ENUM
C25_Witness ==
    /\ stmt.kind = "CreateEnumStmt"
    /\ result.status = "returned"
    /\ Len(workerCommands) = 3
    /\ workerCommands[1].command = CreateSchemaCommand
    /\ IsCreateType(workerCommands[3].command)

SupportedSubtypes == {AT_AddColumn, AT_DropColumn, AT_AlterColumnType}

\* PlanAlterTypeStmt is called for a distributed type with a sub-command
\* that is not one of the three supported
UnsupportedAlterCall ==
    /\ stmt.kind = "AlterTableStmt"
    /\ type_is_distributed(stmt.relation)
    /\ \E i \in DOMAIN stmt.cmds :
          stmt.cmds[i].subtype \notin SupportedSubtypes

\* C28: the deparse of an ALTER TYPE with a sub-command other than add
\* attribute, drop attribute and alter attribute type is an error, and
\* PlanAlterTypeStmt called with it sends no command to the workers and
\* does not return.
C28_UnsupportedAlterSendsNothing ==
    UnsupportedAlterCall =>
        /\ IsDeparseError(appendAlterTypeStmt(stmt))
        /\ workerCommands = <<>>
        /\ result.status # "returned"
        /\ xact.multiShardModifyMode = "parallel"

\* the deparse has raised the error of the unsupported sub-command, which
\* comes second in the statement
C28_Witness ==
    /\ UnsupportedAlterCall
    /\ Len(stmt.cmds) = 2
    /\ stmt.cmds[1].subtype = AT_AddColumn
    /\ result.status = "error"
    /\ result.errmsg = "unsupported subtype for alter table command"


(***************************************************************************)
(* The functions of type.c and of distobjectaddress.c that read the local  *)
(* catalog: the renderers of a type and the two mappings between an        *)
(* ObjectAddress and a DistObjectAddress.                                  *)
(***************************************************************************)
MaxAttrs == 3

AttNames == {"id", "state", "note"}

\* the attributes of a composite type in physical order: the names differ,
\* any attribute may be dropped
TupleDescriptors ==
    UNION {{td \in [1 .. n -> [attname : AttNames,
                               atttypid : {baseInet.objectId},
                               attisdropped : BOOLEAN]] :
               \A i, j \in 1 .. n : i # j => td[i].attname # td[j].attname} :
           n \in 0 .. MaxAttrs}

\* attributeFormToColumnDef
attributeFormToColumnDef(attributeForm) ==
    [colname |-> attributeForm.attname, typeOid |-> attributeForm.atttypid]

\* composite_type_coldeflist without the test of attisdropped
RECURSIVE composite_type_coldeflistAll(_, _, _)
composite_type_coldeflistAll(tupleDescriptor, attributeIndex, columnDefs) ==
    IF attributeIndex > Len(tupleDescriptor) THEN columnDefs
    ELSE composite_type_coldeflistAll(
             tupleDescriptor, attributeIndex + 1,
             Append(columnDefs,
                    attributeFormToColumnDef(tupleDescriptor[attributeIndex])))

\* composite_type_coldeflist: the loop over the tuple descriptor
RECURSIVE composite_type_coldeflist(_, _, _)
composite_type_coldeflist(tupleDescriptor, attributeIndex, columnDefs) ==
    IF attributeIndex > Len(tupleDescriptor) THEN columnDefs
    ELSE LET attributeForm == tupleDescriptor[attributeIndex]
         IN  IF attributeForm.attisdropped
             THEN composite_type_coldeflist(tupleDescriptor,
                                            attributeIndex + 1, columnDefs)
             ELSE composite_type_coldeflist(
                      tupleDescriptor, attributeIndex + 1,
                      Append(columnDefs,
                             attributeFormToColumnDef(attributeForm)))

EnumLabels == {"archived", "closed", "open"}

\* the order of the labels as names, the order of an index on enumlabel
NameRank(name) ==
    CASE name = "archived" -> 1
      [] name = "closed" -> 2
      [] OTHER -> 3

\* the pg_enum rows of app.status: some of the labels, in any sort order,
\* with or without a row of another enum beside them
PgEnumTables ==
    {{[enumtypid |-> enumStatus.objectId, enumlabel |-> l,
       enumsortorder |-> order[l]] : l \in labels} \cup other :
        labels \in SUBSET EnumLabels \ {{}},
        order \in [EnumLabels -> 1 .. Cardinality(EnumLabels)],
        other \in {{}, {[enumtypid |-> compOrder.objectId,
                         enumlabel |-> "closed", enumsortorder |-> 1]}}}

\* a pg_enum table as the catalog holds it: no two rows of one enum with the
\* same sort order
IsPgEnum(pgEnum) ==
    \A r, o \in pgEnum :
        (r.enumtypid = o.enumtypid /\ r.enumsortorder = o.enumsortorder)
            => r = o

\* systable_getnext over EnumTypIdLabelIndexId: the rows come in the order
\* of the index, which is the order of their labels
RECURSIVE EnumTypIdLabelIndexScan(_)
EnumTypIdLabelIndexScan(rows) ==
    IF rows = {} THEN <<>>
    ELSE LET first == CHOOSE r \in rows : \A o \in rows :
                          NameRank(r.enumlabel) <= NameRank(o.enumlabel)
         IN  <<first>> \o EnumTypIdLabelIndexScan(rows \ {first})

\* enum_vals_list: the labels of the rows with enumtypid = typeOid in the
\* order of the scan
enum_vals_list(typeOid, pgEnum) ==
    LET scan == EnumTypIdLabelIndexScan(
                    {r \in pgEnum : r.enumtypid = typeOid})
    IN  [i \in DOMAIN scan |-> scan[i].enumlabel]

\* pg_namespace and pg_type of the local node
PgNamespace ==
    {[oid |-> nsApp.objectId, nspname |-> "app"],
     [oid |-> nsSales.objectId, nspname |-> "Sales"],
     [oid |-> nsCatalog.objectId, nspname |-> "pg_catalog"]}

PgType ==
    {[oid |-> enumStatus.objectId, typname |-> "status",
      typnamespace |-> nsApp.objectId],
     [oid |-> compOrder.objectId, typname |-> "order",
      typnamespace |-> nsApp.objectId],
     [oid |-> baseInet.objectId, typname |-> "inet",
      typnamespace |-> nsApp.objectId],
     [oid |-> arrayStatus.objectId, typname |-> "_status",
      typnamespace |-> nsApp.objectId],
     [oid |-> typeInt4.objectId, typname |-> "int4",
      typnamespace |-> nsCatalog.objectId]}

InvalidOid == 0

\* the objects of the local node an address can name
LocalObjects ==
    {nsApp, nsSales, nsCatalog, enumStatus, compOrder, baseInet, arrayStatus,
     typeInt4, funcSum, extCitus}

\* getDistObjectAddressFromPg
getDistObjectAddressFromPg(address) ==
    makeDistObjectAddress(address.classId, getObjectIdentity(address))

\* stringToQualifiedNameList: the identifier is split at the dots outside
\* quotes, and the quotes of a quoted name are removed
stringToQualifiedNameList(identifier) ==
    CASE identifier = "app" -> <<"app">>
      [] identifier = "\"Sales\"" -> <<"Sales">>
      [] identifier = "pg_catalog" -> <<"pg_catalog">>
      [] identifier = "app.status" -> <<"app", "status">>
      [] identifier = "app.order" -> <<"app", "order">>
      [] identifier = "app.inet" -> <<"app", "inet">>
      [] identifier = "app.status[]" -> <<"app", "status[]">>
      [] identifier = "integer" -> <<"integer">>
      [] identifier = "citus" -> <<"citus">>
      [] identifier = "missing" -> <<"missing">>
      [] identifier = "app.missing" -> <<"app", "missing">>
      [] identifier = "missing.status" -> <<"missing", "status">>
      [] OTHER -> <<>>

\* get_namespace_oid(name, true)
get_namespace_oid(nspname) ==
    IF \E n \in PgNamespace : n.nspname = nspname
    THEN (CHOOSE n \in PgNamespace : n.nspname = nspname).oid
    ELSE InvalidOid

\* LookupTypeNameOid(NULL, makeTypeNameFromNameList(names), true): the type
\* with the last name as typname, in the namespace the first name names or,
\* for a single name, in pg_catalog, the one namespace of the search path
\* that holds a type here
LookupTypeNameOid(names) ==
    LET typnamespace ==
            IF Len(names) = 1 THEN nsCatalog.objectId
            ELSE get_namespace_oid(names[1])
        found == {t \in PgType : /\ Len(names) \in {1, 2}
                                 /\ t.typname = names[Len(names)]
                                 /\ t.typnamespace = typnamespace}
    IN  IF found = {} THEN InvalidOid ELSE (CHOOSE t \in found : TRUE).oid

AddressError(errmsg) == [error |-> errmsg]

IsAddressError(value) == "error" \in DOMAIN value

\* getObjectAddresFromCitus with lookups that tolerate a missing object
getObjectAddresFromCitusMissingOk(distAddress) ==
    CASE distAddress.classId = TypeRelationId ->
             ObjectAddressSet(TypeRelationId,
                 LookupTypeNameOid(
                     stringToQualifiedNameList(distAddress.identifier)))
      [] distAddress.classId = NamespaceRelationId ->
             ObjectAddressSet(NamespaceRelationId,
                 get_namespace_oid(
                     stringToQualifiedNameList(distAddress.identifier)[1]))
      [] OTHER -> AddressError("unrecognized object class")

\* getObjectAddresFromCitus: the address of the object the identifier names,
\* or the error of the lookup with missing_ok = false, or the error of the
\* default branch
getObjectAddresFromCitus(distAddress) ==
    CASE distAddress.classId = TypeRelationId ->
             LET names == stringToQualifiedNameList(distAddress.identifier)
                 typeOid == LookupTypeNameOid(names)
             IN  IF typeOid = InvalidOid
                 THEN AddressError("type does not exist")
                 ELSE ObjectAddressSet(TypeRelationId, typeOid)
      [] distAddress.classId = NamespaceRelationId ->
             LET names == stringToQualifiedNameList(distAddress.identifier)
                 namespaceOid == get_namespace_oid(names[1])
             IN  IF namespaceOid = InvalidOid
                 THEN AddressError("schema does not exist")
                 ELSE ObjectAddressSet(NamespaceRelationId, namespaceOid)
      [] OTHER -> AddressError("unrecognized object class")

\* DistObjectAddresses as pg_dist_object of another node may hold them: of
\* objects of this node, of objects this node lacks, of other classes
ForeignDistAddresses ==
    {makeDistObjectAddress(classId, identifier) :
        classId \in {NamespaceRelationId, TypeRelationId,
                     ExtensionRelationId, ProcedureRelationId},
        identifier \in {"app", "missing", "app.status", "app.missing",
                        "missing.status", "citus"}}
        \ {makeDistObjectAddress(NamespaceRelationId, identifier) :
              identifier \in {"app.status", "app.missing", "missing.status"}}

MaxListLen == 2

\* addresses of two types, of a namespace with the oid of one of them, and
\* of their sub-objects (the attributes of a composite type)
SubAddresses ==
    {[classId |-> c, objectId |-> o, objectSubId |-> s] :
        c \in {TypeRelationId, NamespaceRelationId},
        o \in {enumStatus.objectId, compOrder.objectId}, s \in 0 .. 2}

FunctionCalls ==
    {[kind |-> "composite_type_coldeflist", tupleDescriptor |-> td] :
        td \in TupleDescriptors}
    \cup {[kind |-> "enum_vals_list", typeOid |-> enumStatus.objectId,
           pgEnum |-> pgEnum] : pgEnum \in {t \in PgEnumTables : IsPgEnum(t)}}
    \cup {[kind |-> "getDistObjectAddressFromPg", address |-> address] :
            address \in LocalObjects}
    \cup {[kind |-> "getObjectAddresFromCitus", distAddress |-> d] :
            d \in ForeignDistAddresses}
    \cup {[kind |-> "IsObjectAddressInList", findAddress |-> a,
            addressList |-> l] :
            a \in SubAddresses,
            l \in UNION {[1 .. n -> SubAddresses] : n \in 0 .. MaxListLen}}

FunctionStarts == [status |-> "running"]

\* RecreateCompositeTypeStmt calls composite_type_coldeflist
CallCompositeTypeColdeflist ==
    /\ stmt.kind = "composite_type_coldeflist"
    /\ result.status = "running"
    /\ result' = [status |-> "returned",
                  value |-> composite_type_coldeflist(stmt.tupleDescriptor,
                                                      1, <<>>)]
    /\ UNCHANGED <<stmt, planPc, xact, workerCommands, workerState>>
    /\ UNCHANGED <<resolveVars, fleetVars>>

\* RecreateEnumStmt calls enum_vals_list
CallEnumValsList ==
    /\ stmt.kind = "enum_vals_list"
    /\ result.status = "running"
    /\ result' = [status |-> "returned",
                  value |-> enum_vals_list(stmt.typeOid, stmt.pgEnum)]
    /\ UNCHANGED <<stmt, planPc, xact, workerCommands, workerState>>
    /\ UNCHANGED <<resolveVars, fleetVars>>

\* a caller maps an address of the local node with
\* getDistObjectAddressFromPg
CallGetDistObjectAddressFromPg ==
    /\ stmt.kind = "getDistObjectAddressFromPg"
    /\ result.status = "running"
    /\ result' = [status |-> "mapped",
                  distAddress |-> getDistObjectAddressFromPg(stmt.address)]
    /\ UNCHANGED <<stmt, planPc, xact, workerCommands, workerState>>
    /\ UNCHANGED <<resolveVars, fleetVars>>

\* and maps the DistObjectAddress back with getObjectAddresFromCitus
CallGetObjectAddresFromCitus ==
    /\ stmt.kind = "getDistObjectAddressFromPg"
    /\ result.status = "mapped"
    /\ LET address == getObjectAddresFromCitus(result.distAddress)
       IN  result' =
               IF IsAddressError(address)
               THEN [status |-> "error", distAddress |-> result.distAddress,
                     errmsg |-> address.error]
               ELSE [status |-> "returned",
                     distAddress |-> result.distAddress,
                     address |-> address]
    /\ UNCHANGED <<stmt, planPc, xact, workerCommands, workerState>>
    /\ UNCHANGED <<resolveVars, fleetVars>>

\* a DistObjectAddress read from pg_dist_object is mapped with
\* getObjectAddresFromCitus
CallGetObjectAddresFromCitusForeign ==
    /\ stmt.kind = "getObjectAddresFromCitus"
    /\ result.status = "running"
    /\ LET address == getObjectAddresFromCitus(stmt.distAddress)
       IN  result' =
               IF IsAddressError(address)
               THEN [status |-> "error", distAddress |-> stmt.distAddress,
                     errmsg |-> address.error]
               ELSE [status |-> "returned", distAddress |-> stmt.distAddress,
                     address |-> address]
    /\ UNCHANGED <<stmt, planPc, xact, workerCommands, workerState>>
    /\ UNCHANGED <<resolveVars, fleetVars>>

\* GetDependenciesForObject asks whether a dependency is in the list
CallIsObjectAddressInList ==
    /\ stmt.kind = "IsObjectAddressInList"
    /\ result.status = "running"
    /\ result' = [status |-> "returned",
                  value |-> IsObjectAddressInList(stmt.findAddress,
                                                  stmt.addressList)]
    /\ UNCHANGED <<stmt, planPc, xact, workerCommands, workerState>>
    /\ UNCHANGED <<resolveVars, fleetVars>>

NextFunctions ==
    \/ CallIsObjectAddressInList
    \/ CallGetObjectAddresFromCitusForeign
    \/ CallCompositeTypeColdeflist
    \/ CallEnumValsList
    \/ CallGetDistObjectAddressFromPg
    \/ CallGetObjectAddresFromCitus

\* one of the functions is called with an argument of its domain
InitFunctions ==
    /\ PropagationAtRest
    /\ stmt \in FunctionCalls
    /\ planPc = 1
    /\ xact = NoXact
    /\ result = FunctionStarts
    /\ workerCommands = <<>>
    /\ workerState = <<>>

SpecFunctions == InitFunctions /\ [][NextFunctions]_vars


(***************************************************************************)
(* Claims on the renderers and on the address mappings, checked under      *)
(* SpecFunctions.                                                          *)
(***************************************************************************)
\* the positions of the attributes of a tuple descriptor that are not
\* dropped
KeptAttributes(tupleDescriptor) ==
    {i \in DOMAIN tupleDescriptor : ~tupleDescriptor[i].attisdropped}

\* C26: the column definitions composite_type_coldeflist returns are the
\* attributes that are not dropped, each once, in the physical order of
\* the tuple descriptor.
C26_ColdeflistIsKeptAttributesInOrder ==
    (stmt.kind = "composite_type_coldeflist" /\ result.status = "returned") =>
        LET td == stmt.tupleDescriptor
            kept == KeptAttributes(td)
        IN  /\ Len(result.value) = Cardinality(kept)
            /\ \E f \in [DOMAIN result.value -> kept] :
                  /\ \A k, l \in DOMAIN f : k < l => f[k] < f[l]
                  /\ \A k \in DOMAIN f :
                        /\ result.value[k].colname = td[f[k]].attname
                        /\ result.value[k].typeOid = td[f[k]].atttypid

\* the function has returned two column definitions for three attributes
\* of which the second is dropped
C26_Witness ==
    /\ stmt.kind = "composite_type_coldeflist"
    /\ result.status = "returned"
    /\ Len(stmt.tupleDescriptor) = 3
    /\ KeptAttributes(stmt.tupleDescriptor) = {1, 3}
    /\ Len(result.value) = 2

\* enumsortorder of a label of app.status in a pg_enum table
SortOrderOf(label, typeOid, pgEnum) ==
    (CHOOSE r \in pgEnum : r.enumtypid = typeOid /\ r.enumlabel = label)
        .enumsortorder

\* C27: the labels enum_vals_list returns are the labels of the enum, each
\* once, in the order of their enumsortorder.
C27_LabelsInSortOrder ==
    (stmt.kind = "enum_vals_list" /\ result.status = "returned") =>
        LET rows == {r \in stmt.pgEnum : r.enumtypid = stmt.typeOid}
        IN  /\ Len(result.value) = Cardinality(rows)
            /\ {result.value[i] : i \in DOMAIN result.value} =
                   {r.enumlabel : r \in rows}
            /\ \A i, j \in DOMAIN result.value :
                  i < j =>
                      SortOrderOf(result.value[i], stmt.typeOid, stmt.pgEnum)
                          < SortOrderOf(result.value[j], stmt.typeOid,
                                        stmt.pgEnum)

SupportedClassIds == {NamespaceRelationId, TypeRelationId}

\* C29: getDistObjectAddressFromPg returns a DistObjectAddress for an
\* address of a namespace or of a type, and raises an error for an address
\* of any other class.
C29_ToPortableRejectsOtherClasses ==
    (stmt.kind = "getDistObjectAddressFromPg" /\ result.status # "running") =>
        IF stmt.address.classId \in SupportedClassIds
        THEN "distAddress" \in DOMAIN result
        ELSE result.status = "error" /\ "distAddress" \notin DOMAIN result

\* C30: getObjectAddresFromCitus maps the DistObjectAddress of a local
\* namespace or type back to the address it was made from, and two
\* different local objects of one class have different identifiers.
C30_RoundTrip ==
    /\ (/\ stmt.kind = "getDistObjectAddressFromPg"
        /\ stmt.address.classId \in SupportedClassIds
        /\ result.status \notin {"running", "mapped"})
           => /\ result.status = "returned"
              /\ result.address.classId = stmt.address.classId
              /\ result.address.objectId = stmt.address.objectId
    /\ \A a, b \in LocalObjects :
          (a.classId = b.classId /\ a # b) =>
              getDistObjectAddressFromPg(a) # getDistObjectAddressFromPg(b)


\* the object of this node a DistObjectAddress names, if there is one: a
\* namespace by its name, a type by the name of its namespace and its name
NamedLocalObjects(distAddress) ==
    {ObjectAddressSet(NamespaceRelationId, n.oid) :
        n \in {n \in PgNamespace :
                  /\ distAddress.classId = NamespaceRelationId
                  /\ stringToQualifiedNameList(distAddress.identifier)
                         = <<n.nspname>>}}
    \cup
    {ObjectAddressSet(TypeRelationId, t.oid) :
        t \in {t \in PgType :
                  /\ distAddress.classId = TypeRelationId
                  /\ \E n \in PgNamespace :
                        /\ n.oid = t.typnamespace
                        /\ stringToQualifiedNameList(distAddress.identifier)
                               \in {<<n.nspname, t.typname>>} \cup
                                   (IF n.nspname = "pg_catalog"
                                    THEN {<<t.typname>>} ELSE {})}}

MaxCalls == 2

CreateStatements == CompositeTypeStmts \cup CreateEnumStmts

\* what ParseTreeNode can return for the text the coordinator sends
WorkerStatements ==
    CreateStatements \cup
    {[kind |-> "AlterEnumStmt", typeName |-> enumStatus.objectId,
      oldVal |-> NULL, newVal |-> "archived", newValNeighbor |-> NULL,
      newValIsAfter |-> FALSE, skipIfNewValExists |-> FALSE]}

\* the qualified name of the type a create statement creates
CreatedTypeName(s) ==
    IF s.kind = "CompositeTypeStmt"
    THEN <<s.typevar.schemaname, s.typevar.relname>>
    ELSE <<s.typeName.schemaname, s.typeName.relname>>

\* the contents of pg_type a worker can have: no two types of one name
WorkerCatalogs ==
    {types \in SUBSET CreateStatements :
        \A s, t \in types : CreatedTypeName(s) = CreatedTypeName(t) => s = t}

\* OidIsValid(LookupTypeNameOid(NULL, typeName, missing_ok)) on the worker:
\* with missing_ok = false a type that is missing is an ERROR
TypeLookupOnWorker(s, missing_ok, types) ==
    IF \E t \in types : CreatedTypeName(t) = CreatedTypeName(s)
    THEN "true"
    ELSE IF missing_ok THEN "false" ELSE "ERROR"

\* CompositeTypeExists: LookupTypeNameOid with missing_ok = true
CompositeTypeExists(s, types) == TypeLookupOnWorker(s, TRUE, types)

\* EnumTypeExists: LookupTypeNameOid with missing_ok = false
EnumTypeExists(s, types) == TypeLookupOnWorker(s, FALSE, types)

\* worker_create_if_not_exists: what it returns or raises and the types of
\* the worker after it
worker_create_if_not_exists(parseTree, types) ==
    LET exists ==
            CASE parseTree.kind = "CompositeTypeStmt" ->
                     CompositeTypeExists(parseTree, types)
              [] parseTree.kind = "CreateEnumStmt" ->
                     EnumTypeExists(parseTree, types)
              [] OTHER -> "unsupported"
    IN  CASE exists = "true" ->
                 [status |-> "returned", value |-> FALSE, errmsg |-> "",
                  types |-> types]
          [] exists = "false" ->
                 \* CitusProcessUtility executes the statement
                 [status |-> "returned", value |-> TRUE, errmsg |-> "",
                  types |-> types \cup {parseTree}]
          [] exists = "ERROR" ->
                 [status |-> "error", value |-> FALSE,
                  errmsg |-> "type does not exist", types |-> types]
          [] OTHER ->
                 [status |-> "error", value |-> FALSE,
                  errmsg |-> "unsupported create statement",
                  types |-> types]

\* the worker runs SELECT worker_create_if_not_exists(statement)
CallWorkerCreateIfNotExists ==
    /\ stmt \in WorkerStatements
    /\ result.status = "running"
    /\ LET call == worker_create_if_not_exists(stmt, workerState)
       IN  /\ result' = [status |-> call.status, value |-> call.value,
                         errmsg |-> call.errmsg]
           /\ workerState' = call.types
           /\ workerCommands' =
                  IF call.types # workerState
                  THEN Append(workerCommands, stmt)
                  ELSE workerCommands
    /\ UNCHANGED <<stmt, planPc, xact>>
    /\ UNCHANGED <<resolveVars, fleetVars>>

\* the coordinator sends the worker another statement
SendNextStatement ==
    /\ result.status # "running"
    /\ planPc < MaxCalls
    /\ planPc' = planPc + 1
    /\ stmt' \in WorkerStatements
    /\ result' = FunctionStarts
    /\ UNCHANGED <<xact, workerCommands, workerState>>
    /\ UNCHANGED <<resolveVars, fleetVars>>

NextWorker ==
    \/ CallWorkerCreateIfNotExists
    \/ SendNextStatement

InitWorker ==
    /\ PropagationAtRest
    /\ stmt \in WorkerStatements
    /\ planPc = 1
    /\ xact = NoXact
    /\ result = FunctionStarts
    /\ workerCommands = <<>>
    /\ workerState \in WorkerCatalogs

SpecWorker == InitWorker /\ [][NextWorker]_vars

\* C32: a call of worker_create_if_not_exists with a create statement of a
\* type the worker lacks executes the statement and returns true, and a
\* call with a create statement of a type the worker has returns false and
\* leaves the worker as it is; no such call raises an error.
C32_CreatesExactlyWhenMissing ==
    [][(/\ stmt \in CreateStatements
        /\ result.status = "running"
        /\ result'.status # "running") =>
           /\ result'.status = "returned"
           /\ IF \E t \in workerState :
                    CreatedTypeName(t) = CreatedTypeName(stmt)
              THEN /\ result'.value = FALSE
                   /\ workerState' = workerState
                   /\ workerCommands' = workerCommands
              ELSE /\ result'.value = TRUE
                   /\ workerState' = workerState \cup {stmt}
                   /\ workerCommands' = Append(workerCommands, stmt)]_vars


\* an entry of the list stands for the requested address: the same object,
\* and the entry is the whole object or the same sub-object
Satisfies(entry, request) ==
    /\ entry.classId = request.classId
    /\ entry.objectId = request.objectId
    /\ entry.objectSubId \in {0, request.objectSubId}

\* C33: IsObjectAddressInList is true exactly when the list holds an entry
\* of the same class and object id that has the same sub-object id or
\* sub-object id zero; an entry of a sub-object does not stand for the whole
\* object nor for another sub-object.
C33_ListMembershipBySubObject ==
    (stmt.kind = "IsObjectAddressInList" /\ result.status = "returned") =>
        /\ result.value =
               (\E i \in DOMAIN stmt.addressList :
                    Satisfies(stmt.addressList[i], stmt.findAddress))
        /\ (\A i \in DOMAIN stmt.addressList :
                /\ stmt.addressList[i].objectSubId # 0
                /\ stmt.addressList[i].objectSubId
                       # stmt.findAddress.objectSubId)
               => ~result.value

\* the whole object was asked for, the list holds one of its sub-objects,
\* and the answer is no
C33_Witness ==
    /\ stmt.kind = "IsObjectAddressInList"
    /\ result.status = "returned"
    /\ stmt.findAddress = compOrder
    /\ stmt.addressList = <<[compOrder EXCEPT !.objectSubId = 1]>>
    /\ ~result.value


\* PlanAlterEnumStmt is renaming a value of a distributed enum
RenameValueCall ==
    /\ stmt.kind = "AlterEnumStmt"
    /\ AlterEnumIsRename(stmt)
    /\ type_is_distributed(stmt.typeName)

EssentialFailure == "failure on connection marked as essential"

\* C34: an enum add-value leaves the transaction in its modify mode, goes
\* to the workers one by one and raises no error when a worker fails; an
\* enum rename is sent to all workers only after the transaction was
\* switched to sequential mode, and a worker that fails makes it an error.
C34_AddValueOutsideAtomicPath ==
    /\ AddValueCall =>
          /\ xact.multiShardModifyMode = "parallel"
          /\ result.errmsg # EssentialFailure
          /\ SomeWorkerFailed => result.status # "error"
          /\ \A i \in DOMAIN workerCommands :
                workerCommands[i].workers \in Nodes
    /\ RenameValueCall =>
          /\ workerCommands # <<>> =>
                xact.multiShardModifyMode = "sequential"
          /\ \A i \in DOMAIN workerCommands :
                workerCommands[i].workers = ALL_WORKERS
          /\ SomeWorkerFailed =>
                /\ result.status = "error"
                /\ result.errmsg = EssentialFailure

\* a rename has become an error on a worker that cannot be reached, in
\* sequential mode
C34_Witness ==
    /\ RenameValueCall
    /\ xact.multiShardModifyMode = "sequential"
    /\ SomeWorkerFailed
    /\ result.status = "error"


\* C35: the list GetDependenciesForObject returns does not hold the target,
\* on every store on which the walk returns.
C35_TargetNotInList ==
    pc = "resolved" => target \notin ListedObjects

\* the walk has returned objects on a store in which the target is one of
\* its own dependencies, over an object of the list
C35_Witness ==
    /\ pc = "resolved"
    /\ target \in NormalReachable(target)
    /\ \E i \in DOMAIN dependencies :
          target \in NormalDependencies(dependencies[i])


\* a dependency the walk follows: of a supported kind, not owned by an
\* extension and not recorded in distObject
Followed(address, distObject) ==
    Followable(address) /\ ~IsInPgDistObject(address, distObject)

\* the objects reached over Normal rows through followed objects only
RECURSIVE FollowedClosure(_, _)
FollowedClosure(reached, distObject) ==
    LET more == reached \cup
                {d \in UNION {NormalDependencies(o) : o \in reached} :
                    Followed(d, distObject)}
    IN  IF more = reached THEN reached ELSE FollowedClosure(more, distObject)

FollowedFrom(address, distObject) ==
    FollowedClosure({d \in NormalDependencies(address) :
                        Followed(d, distObject)}, distObject)

\* the walk of the running call has returned its list
WalkReturned == pc \in {"loop", "exec", "close", "done", "error"}

\* C36: an object for which GetDependencyCreateDDLCommands yields no command
\* is never recorded in pg_dist_object by the propagation, and the list of
\* every call whose walk reaches it holds it again.
C36_NoCommandNeverRecorded ==
    \A o \in Objects :
        CommandsOf(o) = <<>> =>
            /\ ~IsInPgDistObject(o, pgDistObject)
            /\ (WalkReturned /\ o \in FollowedFrom(target, txnDistObject))
                   => o \in ListedObjects

\* a call that repeats a completed call, which recorded other objects, has
\* passed again over a listed object without commands
C36_Witness ==
    /\ repeatCall
    /\ pc = "done"
    /\ pgDistObject # {}
    /\ \E i \in DOMAIN dependencies : CommandsOf(dependencies[i]) = <<>>


\* an object the walk meets and does not follow
NotFollowed(address, distObject) ==
    address \in NormalReachable(target) /\ ~Followed(address, distObject)

\* C37: the pruning of GetDependenciesForObject is transitive.  An object
\* that is reached from the target only through objects that are not
\* followed (recorded, owned by an extension, of an unsupported kind) is not
\* in the returned list, even when it is itself supported and unrecorded.
C37_PruningIsTransitive ==
    pc = "resolved" =>
        \A o \in Objects :
            o \notin FollowedFrom(target, pgDistObject) => o \notin ListedObjects

\* the walk has returned on a store in which a supported, unrecorded object
\* is a dependency of an object that is not followed, and of nothing else
C37_Witness ==
    /\ pc = "resolved"
    /\ \E o \in Objects, through \in Objects :
          /\ Followed(o, pgDistObject)
          /\ NotFollowed(through, pgDistObject)
          /\ through \in NormalDependencies(target)
          /\ o \in NormalDependencies(through)
          /\ o \notin FollowedFrom(target, pgDistObject)
          /\ o \notin ListedObjects


(***************************************************************************)
(* Claims on what the planners of type.c send, checked under SpecTypeDDL.  *)
(***************************************************************************)
\* a command sent to the workers that is the deparsed statement on a type
IsTypeDDL(command) ==
    command # DISABLE_DDL_PROPAGATION /\ command # CreateSchemaCommand

\* C38: every statement on a type in the commands sent to the workers comes
\* directly after DISABLE_DDL_PROPAGATION sent to the same workers; none is
\* sent without it.
C38_DisableBeforeTypeDDL ==
    \A i \in DOMAIN workerCommands :
        IsTypeDDL(workerCommands[i].command) =>
            /\ i > 1
            /\ workerCommands[i - 1].command = DISABLE_DDL_PROPAGATION
            /\ workerCommands[i - 1].workers = workerCommands[i].workers
            /\ workerCommands[i - 1].response = RESPONSE_OKAY

\* a planner has returned after it sent the statement on a type
C38_Witness ==
    /\ result.status = "returned"
    /\ \E i \in DOMAIN workerCommands :
          /\ IsTypeDDL(workerCommands[i].command)
          /\ workerCommands[i].command = result.sql
          /\ workerCommands[i].response = RESPONSE_OKAY


\* a statement whose planner sends in the transaction of the coordinator:
\* every statement on a type that is propagated but ALTER TYPE ... ADD VALUE
TransactionalTypeDDL(s) ==
    /\ PlanSteps(s) # <<>>
    /\ ~(s.kind = "AlterEnumStmt" /\ AlterEnumIsAddValue(s))

\* the commands sent to the workers so far other than the commands that
\* ensure the namespace of a new type
SentAfterNamespace ==
    SelectSeq(workerCommands,
              LAMBDA send : send.command # CreateSchemaCommand)

\* C39 as stated: after a parallel operation in the transaction, the planner
\* of a transactional statement on a type does not return and nothing is
\* sent to a worker; without one, the transaction is in sequential mode
\* when something has been sent.
C39_ParallelFailsSendsNothing ==
    TransactionalTypeDDL(stmt) =>
        IF xact.parallelQueryExecuted
        THEN /\ result.status # "returned"
             /\ workerCommands = <<>>
        ELSE workerCommands # <<>> =>
                 xact.multiShardModifyMode = "sequential"

\* C39 amended: after a parallel operation in the transaction, the planner
\* of a transactional statement on a type does not return, and neither
\* DISABLE_DDL_PROPAGATION nor the statement is sent to a worker; without
\* one, the transaction is in sequential mode when one of the two has been
\* sent.  The namespace of a new type is ensured on the workers before
\* either.
C39_ParallelFailsBeforeTypeDDL ==
    TransactionalTypeDDL(stmt) =>
        IF xact.parallelQueryExecuted
        THEN /\ result.status # "returned"
             /\ SentAfterNamespace = <<>>
        ELSE SentAfterNamespace # <<>> =>
                 xact.multiShardModifyMode = "sequential"

\* CREATE TYPE after a parallel operation has failed in
\* EnsureSequentialModeForTypeDDL, with the namespace ensured on the workers
C39_Witness ==
    /\ xact.parallelQueryExecuted
    /\ stmt.kind = "CompositeTypeStmt"
    /\ result.status = "error"
    /\ result.errmsg = "cannot create or modify type because there was a parallel operation"
    /\ Len(workerCommands) = 1
    /\ SentAfterNamespace = <<>>


\* the text PlanDropTypeStmt sends for a statement: DROP TYPE of the
\* distributed types of its list
DropOfDistributedTypes(s) ==
    appendDropTypeStmt(
        [s EXCEPT !.objects = FilterNameListForDistributedTypes(s.objects)])

\* C40: PlanAlterEnumStmt and PlanDropTypeStmt leave their statement as they
\* got it: no step of either changes it, the warning path puts
\* skipIfNewValExists back and the deparse of DROP TYPE puts the full list
\* of objects back, while the statement sent to the workers names the
\* distributed types only.
C40_StatementUnchangedOnReturn ==
    /\ [][stmt.kind \in {"AlterEnumStmt", "DropStmt"} => stmt' = stmt]_vars
    /\ [](stmt.kind = "DropStmt" =>
             \A i \in DOMAIN workerCommands :
                 IsTypeDDL(workerCommands[i].command) =>
                     workerCommands[i].command = DropOfDistributedTypes(stmt))

\* PlanDropTypeStmt has returned for a list with a type that is not
\* distributed, after it sent the statement without that type
C40_Witness ==
    /\ result.status = "returned"
    /\ stmt.kind = "DropStmt"
    /\ Len(FilterNameListForDistributedTypes(stmt.objects)) < Len(stmt.objects)
    /\ \E i \in DOMAIN workerCommands :
          /\ workerCommands[i].command = DropOfDistributedTypes(stmt)
          /\ workerCommands[i].command # Deparse(stmt)
          /\ workerCommands[i].response = RESPONSE_OKAY

====
